---- MODULE Spec2Model ----
(***************************************************************************)
(* Trend retrieval and ranking engine of trending-finder.                  *)
(*                                                                         *)
(* TrendsService.searchTrends (store tier: vector or lexical query, then   *)
(* the live fan-out of PlatformFactory), the shared filter-and-rank step,  *)
(* and the background saveSearchToDatabase run with its upsert into the    *)
(* posts table (unique index on (platform_id, platform)).                  *)
(*                                                                         *)
(* Time is counted in hours (36e5 ms = 1).  A momentum score is kept in    *)
(* hundredths (the code rounds to 2 decimals).  A text is the first `len`  *)
(* characters of the source text `id` followed by `dots` '.' characters.   *)
(***************************************************************************)
EXTENDS Integers, Sequences, FiniteSets, TLC

(***************************************************************************)
(* Bounds of the model.                                                    *)
(***************************************************************************)
\* number of searchTrends calls (each may overlap the others)
MaxCalls == 2
\* the clock starts here and may advance MaxTicks times
StartTime == 10000
MaxTicks == 1

(***************************************************************************)
(* Program constants.                                                      *)
(***************************************************************************)
MaxContentLength == 600
MaxTitleLength == 200
DefaultTextLimit == 50
DefaultVectorLimit == 100

\* typeof momentumScore !== 'number' / limit undefined
NoScore == 0 - 1
NoLimit == 0 - 1

Calls == 1..MaxCalls

(***************************************************************************)
(* Sequence helpers (Array.prototype.map / includes / Set).                *)
(***************************************************************************)
Range(s) == {s[i] : i \in DOMAIN s}

Includes(s, x) == \E i \in DOMAIN s : s[i] = x

\* Array.from(new Set(s)): first occurrences, in order
RECURSIVE Unique(_)
Unique(s) ==
  IF s = <<>> THEN <<>>
  ELSE LET init == Unique(SubSeq(s, 1, Len(s) - 1))
           last == s[Len(s)]
       IN IF Includes(init, last) THEN init ELSE Append(init, last)

RECURSIVE Flatten(_)
Flatten(ss) == IF ss = <<>> THEN <<>> ELSE Head(ss) \o Flatten(Tail(ss))

Min(a, b) == IF a <= b THEN a ELSE b

\* all enumerations, without repetition, of the set S
RECURSIVE Perms(_)
Perms(S) ==
  IF S = {} THEN {<<>>}
  ELSE UNION {{<<x>> \o p : p \in Perms(S \ {x})} : x \in S}

Prefix(s, n) == SubSeq(s, 1, Min(n, Len(s)))

(***************************************************************************)
(* Texts.  NullText is truncateText's null, NoText an undefined title.     *)
(***************************************************************************)
Text(id, len) == [id |-> id, len |-> len, dots |-> 0]
EmptyText == [id |-> "", len |-> 0, dots |-> 0]
NullText == [id |-> "null", len |-> 0, dots |-> 0]
NoText == [id |-> "undefined", len |-> 0, dots |-> 0]
TextLength(t) == t.len + t.dots

\* variant of truncateText that adds a marker to the markers the text has
truncateTextAppending(text, maxLength) ==
  IF TextLength(text) = 0 THEN NullText
  ELSE IF TextLength(text) <= maxLength THEN text
  ELSE [id |-> text.id, len |-> Min(text.len, maxLength), dots |-> text.dots + 3]

\* truncateText: null for a missing or empty text, the text itself up to
\* maxLength characters, else its first maxLength characters and '...'
truncateText(text, maxLength) ==
  IF TextLength(text) = 0 THEN NullText
  ELSE IF TextLength(text) <= maxLength THEN text
  ELSE LET kept == Min(text.len, maxLength)
       IN [id |-> text.id, len |-> kept, dots |-> (maxLength - kept) + 3]

\* v || d
OrElse(v, d) == IF v = NullText THEN d ELSE v

normalizeAndTruncatePost(post) ==
  [post EXCEPT !.content = OrElse(truncateText(post.content, MaxContentLength), EmptyText),
               !.title = OrElse(truncateText(post.title, MaxTitleLength), NoText)]

(***************************************************************************)
(* Platforms and the adapter registry (PlatformFactory).                   *)
(***************************************************************************)
\* initializeServices: the keys of the services map, in insertion order
ServiceKeys == <<"reddit", "youtube", "twitter", "x">>

getAvailablePlatforms == ServiceKeys

\* the credential sets the process may be started with
Credentials ==
  { [clientId |-> TRUE, clientSecret |-> TRUE, youtubeKey |-> TRUE, bearer |-> TRUE],
    [clientId |-> TRUE, clientSecret |-> FALSE, youtubeKey |-> TRUE, bearer |-> FALSE] }

\* RedditService / YouTubeService / XService .isAvailable()
isAvailable(key, cfg) ==
  CASE key = "reddit" -> cfg.clientId /\ cfg.clientSecret
    [] key = "youtube" -> cfg.youtubeKey
    [] key = "twitter" -> TRUE
    [] key = "x" -> TRUE
    [] OTHER -> FALSE

\* String.prototype.toLowerCase on the tokens of the model
toLowerCase(tok) ==
  CASE tok = "Reddit" -> "reddit"
    [] tok = "X" -> "x"
    [] tok = "YouTube" -> "youtube"
    [] OTHER -> tok

\* the alias table of validatePlatforms; "" stands for undefined
PlatformMap(tok) ==
  CASE tok = "x" -> "twitter"
    [] tok = "twitter" -> "twitter"
    [] tok = "reddit" -> "reddit"
    [] tok = "youtube" -> "youtube"
    [] OTHER -> ""

IsDefined(p) == p # ""

IsKnown(p) == Includes(getAvailablePlatforms, p)

validatePlatforms(input) ==
  LET mapped == [i \in DOMAIN input |-> PlatformMap(toLowerCase(input[i]))]
      norm == SelectSeq(mapped, IsDefined)
      unique == SelectSeq(Unique(norm), IsKnown)
  IN IF Len(unique) > 0 THEN unique ELSE getAvailablePlatforms

(***************************************************************************)
(* Momentum score.                                                         *)
(***************************************************************************)
RECURSIVE SumMetrics(_, _)
SumMetrics(metrics, names) ==
  IF names = {} THEN 0
  ELSE LET n == CHOOSE x \in names : TRUE
           v == IF metrics[n] = NoScore THEN 0 ELSE metrics[n]
       IN v + SumMetrics(metrics, names \ {n})

Engagement(metrics) == SumMetrics(metrics, DOMAIN metrics)

\* variant: the age is not clamped from below
calculateMomentumScoreSigned(post, now) ==
  LET dt == now - post.publishedAt
      engagement == Engagement(post.metrics)
  IN IF dt # 0 THEN (200 * engagement + dt) \div (2 * dt)
     ELSE engagement * 1000000

\* variant: the engagement is multiplied by the age
calculateMomentumScoreByAge(post, now) ==
  LET dt == now - post.publishedAt
      engagement == Engagement(post.metrics)
  IN IF dt >= 1 THEN 100 * engagement * dt
     ELSE engagement

\* calculateMomentumScore, in hundredths:
\* Math.round(engagement / Math.max(0.0001, hours) * 100)
calculateMomentumScore(post, now) ==
  LET dt == now - post.publishedAt
      engagement == Engagement(post.metrics)
  IN IF dt >= 1 THEN (200 * engagement + dt) \div (2 * dt)
     ELSE engagement * 1000000

HasScore(p) == p.momentumScore # NoScore

\* variant: the score is computed for every item
WithMomentumAlways(p, now) ==
  [p EXCEPT !.momentumScore = calculateMomentumScore(p, now)]

WithMomentum(p, now) ==
  IF HasScore(p) THEN p
  ELSE [p EXCEPT !.momentumScore = calculateMomentumScore(p, now)]

(***************************************************************************)
(* Filter-and-rank.                                                        *)
(***************************************************************************)
NoCutoff == 0 - 1

getTimeframeCutoff(timeframe, now) ==
  CASE timeframe = "1h" -> now - 1
    [] timeframe = "24h" -> now - 24
    [] timeframe = "7d" -> now - 7 * 24
    [] timeframe = "30d" -> now - 30 * 24
    [] timeframe = "1y" -> now - 365 * 24
    [] timeframe = "all" -> NoCutoff
    [] OTHER -> NoCutoff

\* the variant of InsertByMomentum that puts a post before its equals
RECURSIVE InsertBeforeEquals(_, _)
InsertBeforeEquals(x, sorted) ==
  IF sorted = <<>> THEN <<x>>
  ELSE IF x.momentumScore >= Head(sorted).momentumScore THEN <<x>> \o sorted
       ELSE <<Head(sorted)>> \o InsertBeforeEquals(x, Tail(sorted))

\* Array.prototype.sort((a, b) => b.momentumScore - a.momentumScore): stable
RECURSIVE InsertByMomentum(_, _)
InsertByMomentum(x, sorted) ==
  IF sorted = <<>> THEN <<x>>
  ELSE IF x.momentumScore > Head(sorted).momentumScore THEN <<x>> \o sorted
       ELSE <<Head(sorted)>> \o InsertByMomentum(x, Tail(sorted))

RECURSIVE SortByMomentum(_)
SortByMomentum(list) ==
  IF list = <<>> THEN <<>>
  ELSE InsertByMomentum(list[Len(list)], SortByMomentum(SubSeq(list, 1, Len(list) - 1)))

\* the variant of FilterByTime that keeps every post
FilterByTimeAll(list, cutoff) == list

\* cutoff ? list.filter((p) => p.publishedAt >= cutoff) : list
FilterByTime(list, cutoff) ==
  LET Recent(p) == p.publishedAt >= cutoff
  IN IF cutoff # NoCutoff THEN SelectSeq(list, Recent) ELSE list

\* the variant of FilterByPlatform that keeps every post
FilterByPlatformAll(list, platforms) == list

\* byTime.filter((p) => options.platforms.includes(p.platform))
FilterByPlatform(list, platforms) ==
  LET Wanted(p) == Includes(platforms, p.platform)
  IN SelectSeq(list, Wanted)

applyFiltersAndSort(list, options, now) ==
  LET cutoff == getTimeframeCutoff(options.timeframe, now)
      byTime == FilterByTime(list, cutoff)
      byPlatform == FilterByPlatform(byTime, options.platforms)
      withMomentum == [i \in DOMAIN byPlatform |-> WithMomentum(byPlatform[i], now)]
  IN SortByMomentum(withMomentum)

\* variant: the result is built from the posts as they are
toSearchResultRaw(options, posts, now) ==
  [keyword |-> options.keyword,
   platforms |-> options.platforms,
   results |-> posts,
   totalResults |-> Len(posts),
   searchTime |-> now]

toSearchResult(options, posts, now) ==
  LET normalizedPosts == [i \in DOMAIN posts |-> normalizeAndTruncatePost(posts[i])]
  IN [keyword |-> options.keyword,
      platforms |-> options.platforms,
      results |-> normalizedPosts,
      totalResults |-> Len(normalizedPosts),
      searchTime |-> now]

(***************************************************************************)
(* What the platforms hold: the posts an adapter may return.               *)
(***************************************************************************)
Keyword == "ai"

\* the source texts in which the keyword occurs (within their first characters)
KeywordTexts == {"ai news", "ai news, edited", "ai headline", "ai thread", "mock ai trends"}

\* content ILIKE %keyword% OR title ILIKE %keyword%
MatchesKeyword(row, keyword) ==
  keyword = Keyword /\ (row.content.id \in KeywordTexts \/ row.title.id \in KeywordTexts)

\* reddit r1 as first fetched
R1a ==
  [id |-> "reddit_r1", platformId |-> "r1", platform |-> "reddit", author |-> "ann",
   content |-> Text("ai news", 40), title |-> Text("ai headline", 20),
   metrics |-> [upvotes |-> 10, comments |-> 2], link |-> "reddit.com/r1",
   thumbnail |-> "thumb1", publishedAt |-> StartTime - 1, createdAt |-> StartTime - 1,
   momentumScore |-> 1400]

\* reddit r1 fetched again: edited by its author, new counters
R1b ==
  [id |-> "reddit_r1", platformId |-> "r1", platform |-> "reddit", author |-> "ann_b",
   content |-> Text("ai news, edited", 700), title |-> Text("new headline", 250),
   metrics |-> [upvotes |-> 50, comments |-> 9], link |-> "reddit.com/r1?b",
   thumbnail |-> "thumb2", publishedAt |-> StartTime - 30, createdAt |-> StartTime - 30,
   momentumScore |-> 227]

\* an old video without a title, a counter or a precomputed score
Y1 ==
  [id |-> "youtube_y1", platformId |-> "y1", platform |-> "youtube", author |-> "bob",
   content |-> Text("No description", 14), title |-> NoText,
   metrics |-> [views |-> 900, likes |-> NoScore], link |-> "youtube.com/y1",
   thumbnail |-> "", publishedAt |-> StartTime - 9000, createdAt |-> StartTime - 9000,
   momentumScore |-> NoScore]

T1 ==
  [id |-> "twitter_t1", platformId |-> "t1", platform |-> "twitter", author |-> "cy",
   content |-> Text("ai thread", 100), title |-> NoText,
   metrics |-> [likes |-> 7], link |-> "twitter.com/t1",
   thumbnail |-> "", publishedAt |-> StartTime, createdAt |-> StartTime,
   momentumScore |-> 1400]

\* the lists an adapter's searchTrends may resolve to
Responses(key) ==
  CASE key = "reddit" -> {<<R1a>>, <<R1b>>}
    [] key = "youtube" -> {<<Y1>>}
    [] key = "twitter" -> {<<T1>>}
    [] key = "x" -> {<<T1>>}
    [] OTHER -> {}

\* XService.getMockData: the mock tweets (the first of them stands for the
\* list), filtered by timeframe and cut to the limit
MockTweet(t) ==
  [id |-> "mock_1", platformId |-> "123456789", platform |-> "twitter",
   author |-> "tech_enthusiast", content |-> Text("mock ai trends", 110), title |-> NoText,
   metrics |-> [likes |-> 1250, retweets |-> 89, replies |-> 45],
   link |-> "twitter.com/tech_enthusiast/status/123456789", thumbnail |-> "",
   publishedAt |-> t - 2, createdAt |-> t - 2, momentumScore |-> 69200]

getMockData(options, t) ==
  LET mockTweets == <<MockTweet(t)>>
      Within(tweet) ==
        LET hoursSinceCreation == t - tweet.createdAt
        IN CASE options.timeframe = "1h" -> hoursSinceCreation <= 1
             [] options.timeframe = "24h" -> hoursSinceCreation <= 24
             [] options.timeframe = "7d" -> hoursSinceCreation <= 24 * 7
             [] options.timeframe = "30d" -> hoursSinceCreation <= 24 * 30
             [] OTHER -> TRUE
      filteredTweets == SelectSeq(mockTweets, Within)
  IN Prefix(filteredTweets, IF options.limit = NoLimit \/ options.limit = 0 THEN 50
                            ELSE options.limit)

\* XService: useMockData = !config.apiKey
useMockData(key, cfg) == key \in {"twitter", "x"} /\ ~cfg.bearer

\* an adapter call settles: resolved with a list, or rejected
Resolved(list) == [ok |-> TRUE, posts |-> list]
RejectedCall == [ok |-> FALSE, posts |-> <<>>]
Outcomes(key) == {Resolved(l) : l \in Responses(key)} \cup {RejectedCall}

(***************************************************************************)
(* The requests of the model.                                              *)
(***************************************************************************)
PlatformInputs == {<<"Reddit", "youtube", "reddit">>, <<"X">>, <<"tiktok">>}
Timeframes == {"1h", "24h", "7d", "30d", "1y", "all", "2w"}
Limits == {NoLimit, 1}

\* the requests of a single search: every timeframe without a limit, and
\* every limit with a 24 hour window or none
Requests ==
  [keyword : {Keyword}, platforms : PlatformInputs, timeframe : Timeframes,
   limit : {NoLimit}]
    \cup [keyword : {Keyword}, platforms : PlatformInputs, timeframe : {"24h", "all"},
          limit : Limits]

\* the requests of overlapping searches
OverlapRequests ==
  [keyword : {Keyword}, platforms : {<<"reddit">>}, timeframe : {"all"}, limit : {NoLimit}]

(***************************************************************************)
(* State.                                                                  *)
(***************************************************************************)
VARIABLES
  config,   \* the credentials the adapters were constructed with
  now,      \* Date.now()
  posts,    \* the posts table: a set of rows
  trends,   \* the trends table: a set of rows
  search,   \* search[c]: the searchTrends call c
  persist,  \* persist[c]: the saveSearchToDatabase run started by call c
  reddit,   \* the RedditService instance and its searchTrends calls
  http      \* the express app: the rate limiters' hit stores and the last answer

vars == <<config, now, posts, trends, search, persist, reddit, http>>

RowIds == <<"uuid1", "uuid2", "uuid3", "uuid4", "uuid5", "uuid6", "uuid7", "uuid8">>

NoEmbedding == [ok |-> FALSE, of |-> <<>>]
Embedding(texts) == [ok |-> TRUE, of |-> texts]

NoResponse ==
  [keyword |-> "", platforms |-> <<>>, results |-> <<>>, totalResults |-> 0 - 1,
   searchTime |-> 0 - 1]

NoRequest == [keyword |-> "", platforms |-> <<>>, timeframe |-> "", limit |-> NoLimit]

IdleSearch ==
  [pc |-> "idle", options |-> NoRequest, platforms |-> <<>>, embedding |-> "none",
   vector |-> FALSE, lexical |-> FALSE, stored |-> <<>>, invoked |-> {}, pending |-> {},
   settled |-> {}, results |-> <<>>, source |-> "none", response |-> NoResponse,
   after |-> {}, hung |-> {}, fetchFailed |-> {}, completed |-> <<>>]

IdlePersist ==
  [pc |-> "off", trend |-> FALSE, toInsert |-> <<>>, checked |-> <<>>, done |-> {},
   failed |-> {}, last |-> "none"]

\* accessToken = null
NoToken == 0

\* a searchTrends call of the Reddit adapter that has not been made
IdleRedditCall ==
  [pc |-> "idle", keyword |-> "", limit |-> NoLimit, subreddits |-> <<>>, sub |-> 0,
   page |-> 0, cursor |-> 0, out |-> <<>>, all |-> <<>>, requested |-> {},
   header |-> NoToken, post |-> NoToken, from |-> "none", result |-> <<>>]

\* the RedditService after construction: no token, tokenExpiry = 0, no default
\* Authorization header; refreshes counts the token requests issued, granted
\* lists the token responses in the order they arrived
IdleReddit ==
  [accessToken |-> NoToken, tokenExpiry |-> 0, authorization |-> NoToken,
   refreshes |-> 0, granted |-> <<>>, listing |-> "none",
   call |-> [c \in Calls |-> IdleRedditCall]]

\* the clients (req.ip) the rate limiters keep apart
Clients == {"a", "b"}

\* no request answered yet
NoAnswer == [ip |-> "", method |-> "", valid |-> FALSE, status |-> 0, service |-> FALSE]

\* the app after construction: both hit stores empty
IdleHttp ==
  [generalRateLimiter |-> [ip \in Clients |-> 0],
   searchRateLimiter |-> [ip \in Clients |-> 0],
   last |-> NoAnswer]

Init ==
  /\ config \in Credentials
  /\ now = StartTime
  /\ posts = {}
  /\ trends = {}
  /\ search = [c \in Calls |-> IdleSearch]
  /\ persist = [c \in Calls |-> IdlePersist]
  /\ reddit = IdleReddit
  /\ http = IdleHttp

\* the options searchTrends passes on: { ...options, platforms }
Validated(c) == [search[c].options EXCEPT !.platforms = search[c].platforms]

(***************************************************************************)
(* searchTrends: INIT and the store tier (searchTrendsInDatabase).         *)
(***************************************************************************)
\* generateEmbedding: null when the provider fails or the text is empty
generateEmbedding(texts, ok) ==
  IF ok /\ texts # <<>> THEN Embedding(texts) ELSE NoEmbedding

\* the variant of TierFor that always falls back to the text query
TierForText(queryEmbedding) == "lexical"

\* if (!queryEmbedding): the text query, else the vector query
TierFor(queryEmbedding) == IF queryEmbedding = NoEmbedding THEN "lexical" ELSE "vector"

\* searchTrends up to the store query: validatePlatforms, then
\* generateEmbedding(options.keyword), a vector or null when the provider fails
Start(c, req, embOk) ==
  /\ search[c].pc = "idle"
  /\ LET queryEmbedding == generateEmbedding(<<Text(req.keyword, 2)>>, embOk)
     IN search' = [search EXCEPT ![c] =
          [@ EXCEPT !.pc = TierFor(queryEmbedding),
                    !.embedding = IF queryEmbedding = NoEmbedding THEN "failed" ELSE "ok",
                    !.options = req,
                    !.platforms = validatePlatforms(req.platforms),
                    !.after = {d \in Calls : persist[d].pc = "done"}]]
  /\ UNCHANGED <<http, reddit, config, now, posts, trends, persist>>

TempId(id) == "temp_" \o id

\* a row of the vector query as a Post (the query does not select platform_id)
VectorPost(r, t) ==
  [id |-> r.id, platformId |-> TempId(r.id), platform |-> r.platform, author |-> r.author,
   content |-> r.content, title |-> r.title, metrics |-> r.metrics, link |-> r.link,
   thumbnail |-> r.thumbnail, publishedAt |-> r.publishedAt, createdAt |-> r.createdAt,
   momentumScore |-> IF r.momentumScore # NoScore THEN r.momentumScore
                     ELSE calculateMomentumScore(r, t)]

\* a row of the text query as a Post
TextPost(r) ==
  [id |-> r.id, platformId |-> r.platformId, platform |-> r.platform, author |-> r.author,
   content |-> OrElse(truncateText(r.content, MaxContentLength), EmptyText),
   title |-> OrElse(truncateText(r.title, MaxTitleLength), NoText),
   metrics |-> r.metrics, link |-> r.link,
   thumbnail |-> r.thumbnail, publishedAt |-> r.publishedAt, createdAt |-> r.createdAt,
   momentumScore |-> IF r.momentumScore # NoScore THEN r.momentumScore ELSE 0]

IsSortedDesc(rows) ==
  \A i \in 1..(Len(rows) - 1) : rows[i].momentumScore >= rows[i + 1].momentumScore

\* WHERE embedding IS NOT NULL ORDER BY embedding <-> query LIMIT n
VectorRows(rows, n) ==
  {Prefix(p, n) : p \in Perms({r \in rows : r.embedding.ok})}

\* the variant of TextRows without its WHERE clause
TextRowsAny(rows, keyword, n) ==
  {Prefix(p, n) : p \in {q \in Perms(rows) : IsSortedDesc(q)}}

\* WHERE content ILIKE .. OR title ILIKE .. ORDER BY momentum_score DESC LIMIT n
TextRows(rows, keyword, n) ==
  {Prefix(p, n) : p \in {q \in Perms({r \in rows : MatchesKeyword(r, keyword)}) :
                          IsSortedDesc(q)}}

VectorLimit(options) == IF options.limit = NoLimit THEN DefaultVectorLimit ELSE options.limit

TextLimit(options) == IF options.limit = NoLimit THEN DefaultTextLimit ELSE options.limit

(***************************************************************************)
(* PlatformFactory.searchTrendsAcrossPlatforms.                            *)
(***************************************************************************)
\* the variant of Callable that does not ask the service whether it is available
CallableUnasked(key) == Includes(ServiceKeys, key)

\* the loop over the requested platforms: a call is issued to every platform
\* with an available service, the others are set to [] in the results map
Callable(key) == Includes(ServiceKeys, key) /\ isAvailable(key, config)

Issued(platforms) == SelectSeq(platforms, Callable)

NotCallable(key) == ~Callable(key)

EmptyEntry(key) == [key |-> key, posts |-> <<>>]

UnavailableEntries(platforms) ==
  LET skipped == Unique(SelectSeq(platforms, NotCallable))
  IN [i \in DOMAIN skipped |-> EmptyEntry(skipped[i])]

\* the variant of SettleEntry without its .catch: the rejection reaches Promise.all
SettleEntryRethrow(key, outcome) ==
  [ok |-> outcome.ok, key |-> key, posts |-> outcome.posts]

\* .then(posts => [platform, posts]).catch(error => [platform, []])
SettleEntry(key, outcome) ==
  IF outcome.ok THEN [ok |-> TRUE, key |-> key, posts |-> outcome.posts]
  ELSE [ok |-> TRUE, key |-> key, posts |-> <<>>]

\* Map.prototype.set
RECURSIVE MapSet(_, _)
MapSet(map, entry) ==
  IF map = <<>> THEN <<entry>>
  ELSE IF Head(map).key = entry.key THEN <<entry>> \o Tail(map)
       ELSE <<Head(map)>> \o MapSet(Tail(map), entry)

RECURSIVE MapSetAll(_, _)
MapSetAll(map, entries) ==
  IF entries = <<>> THEN map
  ELSE MapSetAll(MapSet(map, [key |-> Head(entries).key, posts |-> Head(entries).posts]),
                 Tail(entries))

MapGet(map, key) ==
  LET hits == {i \in DOMAIN map : map[i].key = key}
  IN map[CHOOSE i \in hits : TRUE].posts

MapHas(map, key) == \E i \in DOMAIN map : map[i].key = key

\* the fan-out as searchTrends enters it: the calls issued, the entries set to []
FanOut(c, filtered, tier) ==
  [search[c] EXCEPT !.pc = "await", !.vector = (tier = "vector"),
                    !.lexical = (tier = "lexical"), !.stored = filtered,
                    !.invoked = Range(Issued(search[c].platforms)),
                    !.pending = Range(Issued(search[c].platforms)),
                    !.results = UnavailableEntries(search[c].platforms)]

\* the variant of StoreTierDone that goes on to the adapters whatever the store gave
StoreTierLive(c, filtered, tier) ==
  search' = [search EXCEPT ![c] = FanOut(c, filtered, tier)]

\* what searchTrends does with the result of searchTrendsInDatabase: return a
\* non-empty store result, else issue the adapter calls of the fan-out
StoreTierDone(c, filtered, tier) ==
  search' = [search EXCEPT ![c] =
    IF Len(filtered) = 0
    THEN FanOut(c, filtered, tier)
    ELSE [@ EXCEPT !.pc = "returned", !.vector = (tier = "vector"),
                   !.lexical = (tier = "lexical"), !.stored = filtered,
                   !.source = tier,
                   !.response = toSearchResult(Validated(c), filtered, now)]]

\* variant: the failure of the vector query is rethrown to the caller
VectorSearchRaising(c, dbOk) ==
  /\ search[c].pc = "vector"
  /\ IF dbOk
     THEN \E rows \in VectorRows(posts, VectorLimit(search[c].options)) :
            LET vecPosts == [i \in DOMAIN rows |-> VectorPost(rows[i], now)]
            IN StoreTierDone(c, applyFiltersAndSort(vecPosts, Validated(c), now), "vector")
     ELSE search' = [search EXCEPT ![c] = [@ EXCEPT !.pc = "failed", !.vector = TRUE]]
  /\ UNCHANGED <<http, reddit, config, now, posts, trends, persist>>

\* the vector query; a failing query is caught and counts as a miss
VectorSearch(c, dbOk) ==
  /\ search[c].pc = "vector"
  /\ IF dbOk
     THEN \E rows \in VectorRows(posts, VectorLimit(search[c].options)) :
            LET vecPosts == [i \in DOMAIN rows |-> VectorPost(rows[i], now)]
            IN StoreTierDone(c, applyFiltersAndSort(vecPosts, Validated(c), now), "vector")
     ELSE StoreTierDone(c, <<>>, "vector")
  /\ UNCHANGED <<http, reddit, config, now, posts, trends, persist>>

\* searchPostsByText; a failing query is caught and yields no rows
LexicalSearch(c, dbOk) ==
  /\ search[c].pc = "lexical"
  /\ IF dbOk
     THEN \E rows \in TextRows(posts, search[c].options.keyword, TextLimit(search[c].options)) :
            LET textPosts == [i \in DOMAIN rows |-> TextPost(rows[i])]
            IN StoreTierDone(c, applyFiltersAndSort(textPosts, Validated(c), now), "lexical")
     ELSE StoreTierDone(c, applyFiltersAndSort(<<>>, Validated(c), now), "lexical")
  /\ UNCHANGED <<http, reddit, config, now, posts, trends, persist>>

(***************************************************************************)
(* searchTrends: the live fetch.                                           *)
(***************************************************************************)
\* one adapter call settles (service.searchTrends resolves or rejects) after
\* the adapter has queried its platform
AdapterSettles(c, key, outcome) ==
  /\ search[c].pc \in {"await", "fanout"}
  /\ key \in search[c].pending \ search[c].hung
  /\ ~useMockData(key, config)
  /\ search' = [search EXCEPT ![c] =
       [@ EXCEPT !.pending = @ \ {key},
                 !.settled = @ \cup {[key |-> key, outcome |-> outcome]}]]
  /\ UNCHANGED <<http, reddit, config, now, posts, trends, persist>>

\* the call to an XService constructed without a token resolves with mock data
AdapterMocks(c, key) ==
  /\ search[c].pc \in {"await", "fanout"}
  /\ key \in search[c].pending \ search[c].hung
  /\ useMockData(key, config)
  /\ search' = [search EXCEPT ![c] =
       [@ EXCEPT !.pending = @ \ {key},
                 !.settled = @ \cup {[key |-> key,
                                      outcome |-> Resolved(getMockData(search[c].options, now))]}]]
  /\ UNCHANGED <<http, reddit, config, now, posts, trends, persist>>

\* the outcome of the call issued to platform key
OutcomeOf(c, key) == (CHOOSE e \in search[c].settled : e.key = key).outcome

\* variant: the entries in the order the calls completed
SearchResultsAsCompleted(c) ==
  LET done == search[c].completed
  IN [i \in DOMAIN done |-> SettleEntry(done[i], OutcomeOf(c, done[i]))]

\* Promise.all(searchPromises): the entries in the order the calls were issued
SearchResults(c) ==
  LET issued == Issued(search[c].platforms)
  IN [i \in DOMAIN issued |-> SettleEntry(issued[i], OutcomeOf(c, issued[i]))]

MapValues(map) == Flatten([i \in DOMAIN map |-> map[i].posts])

\* session dedup of saveSearchToDatabase: first occurrence of platform:platformId
PostKey(p) == <<p.platform, p.platformId>>

\* variant: every item of the result list is kept
DedupNone(list) == list

RECURSIVE DedupByKey(_)
DedupByKey(list) ==
  IF list = <<>> THEN <<>>
  ELSE LET init == DedupByKey(SubSeq(list, 1, Len(list) - 1))
           last == list[Len(list)]
       IN IF \E i \in DOMAIN init : PostKey(init[i]) = PostKey(last) THEN init
          ELSE Append(init, last)

\* a result as PostCreate
toPostCreate(p, t) ==
  LET normalized == normalizeAndTruncatePost(p)
  IN [platformId |-> normalized.platformId, platform |-> normalized.platform,
      author |-> normalized.author, content |-> normalized.content,
      title |-> normalized.title, metrics |-> normalized.metrics,
      link |-> normalized.link, thumbnail |-> normalized.thumbnail,
      publishedAt |-> normalized.publishedAt, createdAt |-> normalized.createdAt,
      momentumScore |-> IF HasScore(normalized) THEN normalized.momentumScore
                        ELSE calculateMomentumScore(normalized, t)]

ToInsert(result, t) ==
  LET kept == DedupByKey(result.results)
  IN [i \in DOMAIN kept |-> toPostCreate(kept[i], t)]

Todo == [state |-> "todo", emb |-> NoEmbedding]
Skip == [state |-> "skip", emb |-> NoEmbedding]
New(emb) == [state |-> "new", emb |-> emb]

\* all adapter calls have settled: merge, score, filter, rank, build the
\* response, start the background save and return
LiveReturn(c) ==
  /\ search[c].pc = "await"
  /\ search[c].pending = {}
  /\ LET entries == SearchResults(c)
         results == MapSetAll(search[c].results, entries)
         all == MapValues(results)
         enriched == [i \in DOMAIN all |-> WithMomentum(all[i], now)]
         filtered == applyFiltersAndSort(enriched, Validated(c), now)
         result == toSearchResult(search[c].options, filtered, now)
     IN IF \A i \in DOMAIN entries : entries[i].ok
        THEN /\ search' = [search EXCEPT ![c] =
                  [@ EXCEPT !.pc = "returned", !.results = results, !.source = "live",
                            !.response = result]]
             /\ persist' = [persist EXCEPT ![c] = [@ EXCEPT !.pc = "trend"]]
        ELSE /\ search' = [search EXCEPT ![c] = [@ EXCEPT !.pc = "failed"]]
             /\ UNCHANGED persist
  /\ UNCHANGED <<http, reddit, config, now, posts, trends>>

(***************************************************************************)
(* saveSearchToDatabase: the background run of a live-fetched response.    *)
(***************************************************************************)
SameKey(a, b) == a.platformId = b.platformId /\ a.platform = b.platform

AllChecked(run) == \A i \in DOMAIN run.checked : run.checked[i].state # "todo"

\* the new posts the upsert loop has still to write
Remaining(run) ==
  {i \in DOMAIN run.checked : run.checked[i].state = "new" /\ i \notin run.done \cup run.failed}

\* the run is over once every post is checked and the upsert loop has ended
Settle(run) ==
  IF AllChecked(run) /\ Remaining(run) = {} THEN [run EXCEPT !.pc = "done"] ELSE run

\* variant: the trend row of a keyword replaces the rows stored for it
insertTrendByKeyword(rows, c, options) ==
  {r \in rows : r.keyword # options.keyword} \cup
    {[id |-> <<c, 1>>, keyword |-> options.keyword, platforms |-> options.platforms,
      timeframe |-> options.timeframe]}

\* db.insert(trends).values({keyword, platforms, timeframe}).returning(): a new
\* row under a generated id (the call and the ordinal of the row among its own)
insertTrend(rows, c, options) ==
  rows \cup
    {[id |-> <<c, Cardinality({r \in rows : r.id[1] = c}) + 1>>,
      keyword |-> options.keyword, platforms |-> options.platforms,
      timeframe |-> options.timeframe]}

\* variant: the save runs for every response returned, whatever answered it
InsertTrendAnySource(c, ok) ==
  /\ search[c].pc = "returned"
  /\ persist[c].pc \in {"off", "trend"}
  /\ IF ok
     THEN LET toInsert == ToInsert(search[c].response, now)
          IN /\ trends' = insertTrend(trends, c, search[c].options)
             /\ persist' = [persist EXCEPT ![c] =
                  Settle([@ EXCEPT !.pc = "check", !.trend = TRUE, !.toInsert = toInsert,
                                   !.checked = [i \in DOMAIN toInsert |-> Todo]])]
     ELSE /\ persist' = [persist EXCEPT ![c] = [@ EXCEPT !.pc = "aborted"]]
          /\ UNCHANGED trends
  /\ UNCHANGED <<http, reddit, config, now, posts, search>>

\* variant: a failing insert of the trend row is raised to the caller
InsertTrendRaises(c, ok) ==
  /\ persist[c].pc = "trend"
  /\ IF ok
     THEN LET toInsert == ToInsert(search[c].response, now)
          IN /\ trends' = insertTrend(trends, c, search[c].options)
             /\ persist' = [persist EXCEPT ![c] =
                  Settle([@ EXCEPT !.pc = "check", !.trend = TRUE, !.toInsert = toInsert,
                                   !.checked = [i \in DOMAIN toInsert |-> Todo]])]
             /\ UNCHANGED search
     ELSE /\ persist' = [persist EXCEPT ![c] = [@ EXCEPT !.pc = "aborted"]]
          /\ search' = [search EXCEPT ![c] = [@ EXCEPT !.pc = "failed", !.response = NoResponse]]
          /\ UNCHANGED trends
  /\ UNCHANGED <<http, reddit, config, now, posts>>

\* db.insert(trends).values({keyword, platforms, timeframe, ..}): the row holds
\* the values passed; on failure the outer catch ends the run
InsertTrend(c, ok) ==
  /\ persist[c].pc = "trend"
  /\ IF ok
     THEN LET toInsert == ToInsert(search[c].response, now)
          IN /\ trends' = insertTrend(trends, c, search[c].options)
             /\ persist' = [persist EXCEPT ![c] =
                  Settle([@ EXCEPT !.pc = "check", !.trend = TRUE, !.toInsert = toInsert,
                                   !.checked = [i \in DOMAIN toInsert |-> Todo]])]
     ELSE /\ persist' = [persist EXCEPT ![c] = [@ EXCEPT !.pc = "aborted"]]
          /\ UNCHANGED trends
  /\ UNCHANGED <<http, reddit, config, now, posts, search>>

\* checkPostExists: a failing query is caught and counts as 'does not exist'
checkPostExists(pc, rows, dbOk) == dbOk /\ \E r \in rows : SameKey(r, pc)

\* [pc.title, pc.content].filter(Boolean).join(' ')
TextForEmbedding(pc) ==
  LET HasText(t) == TextLength(t) > 0
  IN SelectSeq(<<pc.title, pc.content>>, HasText)

\* one element of the Promise.all: existence check, then the embedding
CheckPost(c, i, dbOk, embOk) ==
  /\ persist[c].pc = "check"
  /\ i \in DOMAIN persist[c].checked
  /\ persist[c].checked[i] = Todo
  /\ LET pc == persist[c].toInsert[i]
         outcome == IF checkPostExists(pc, posts, dbOk) THEN Skip
                    ELSE New(generateEmbedding(TextForEmbedding(pc), embOk))
     IN persist' = [persist EXCEPT ![c] = Settle([@ EXCEPT !.checked[i] = outcome])]
  /\ UNCHANGED <<http, reddit, config, now, posts, trends, search>>

\* the values handed to db.insert(posts) for a new post
PostToUpsert(pc, emb, t) ==
  LET finalMomentumScore == IF HasScore(pc) THEN pc.momentumScore
                            ELSE calculateMomentumScore(pc, t)
      normalizedPost == normalizeAndTruncatePost(pc)
  IN [platformId |-> pc.platformId, platform |-> pc.platform, author |-> pc.author,
      content |-> normalizedPost.content, title |-> normalizedPost.title,
      metrics |-> pc.metrics, link |-> pc.link, thumbnail |-> pc.thumbnail,
      publishedAt |-> pc.publishedAt, createdAt |-> pc.createdAt,
      momentumScore |-> finalMomentumScore, embedding |-> emb]

\* the variant of ConflictUpdate that sets every column of the incoming post
ConflictOverwrite(row, post, t) ==
  [row EXCEPT !.author = post.author, !.content = post.content, !.title = post.title,
              !.link = post.link, !.thumbnail = post.thumbnail,
              !.publishedAt = post.publishedAt, !.createdAt = post.createdAt,
              !.metrics = post.metrics, !.momentumScore = post.momentumScore,
              !.embedding = post.embedding, !.updatedAt = t]

\* onConflictDoUpdate ... set: metrics, momentumScore, embedding, updatedAt
ConflictUpdate(row, post, t) ==
  [row EXCEPT !.metrics = post.metrics, !.momentumScore = post.momentumScore,
              !.embedding = post.embedding, !.updatedAt = t]

NewRow(rows, post, t) ==
  [id |-> RowIds[Cardinality(rows) + 1], platformId |-> post.platformId,
   platform |-> post.platform, author |-> post.author, content |-> post.content,
   title |-> post.title, metrics |-> post.metrics, link |-> post.link,
   thumbnail |-> post.thumbnail, publishedAt |-> post.publishedAt,
   createdAt |-> post.createdAt, updatedAt |-> t,
   momentumScore |-> post.momentumScore, embedding |-> post.embedding]

\* the conflict target: the unique index on (platform_id, platform)
Conflicts(rows, post) == {r \in rows : SameKey(r, post)}

\* the variant of Upsert on a table without the unique index: a plain insert
UpsertBlind(rows, post, t) == rows \cup {NewRow(rows, post, t)}

\* db.insert(posts).values(post).onConflictDoUpdate(...)
Upsert(rows, post, t) ==
  IF Conflicts(rows, post) # {}
  THEN {IF SameKey(r, post) THEN ConflictUpdate(r, post, t) ELSE r : r \in rows}
  ELSE rows \cup {NewRow(rows, post, t)}

\* variant: a failing statement ends the run, as the failure of a batch insert
UpsertPostAborting(c, ok) ==
  /\ persist[c].pc = "check"
  /\ AllChecked(persist[c])
  /\ Remaining(persist[c]) # {}
  /\ LET i == CHOOSE j \in Remaining(persist[c]) : \A k \in Remaining(persist[c]) : j <= k
         post == PostToUpsert(persist[c].toInsert[i], persist[c].checked[i].emb, now)
     IN IF ok
        THEN /\ posts' = Upsert(posts, post, now)
             /\ persist' = [persist EXCEPT ![c] =
                  Settle([@ EXCEPT !.done = @ \cup {i},
                                   !.last = IF Conflicts(posts, post) # {} THEN "updated"
                                            ELSE "inserted"])]
        ELSE /\ persist' = [persist EXCEPT ![c] =
                  [@ EXCEPT !.pc = "aborted", !.failed = @ \cup {i}]]
             /\ UNCHANGED posts
  /\ UNCHANGED <<http, reddit, config, now, trends, search>>

\* one turn of the upsert loop; a failing statement is caught and logged
UpsertPost(c, ok) ==
  /\ persist[c].pc = "check"
  /\ AllChecked(persist[c])
  /\ Remaining(persist[c]) # {}
  /\ LET i == CHOOSE j \in Remaining(persist[c]) : \A k \in Remaining(persist[c]) : j <= k
         post == PostToUpsert(persist[c].toInsert[i], persist[c].checked[i].emb, now)
     IN IF ok
        THEN /\ posts' = Upsert(posts, post, now)
             /\ persist' = [persist EXCEPT ![c] =
                  Settle([@ EXCEPT !.done = @ \cup {i},
                                   !.last = IF Conflicts(posts, post) # {} THEN "updated"
                                            ELSE "inserted"])]
        ELSE /\ persist' = [persist EXCEPT ![c] = Settle([@ EXCEPT !.failed = @ \cup {i}])]
             /\ UNCHANGED posts
  /\ UNCHANGED <<http, reddit, config, now, trends, search>>

Tick ==
  /\ now < StartTime + MaxTicks
  /\ now' = now + 1
  /\ UNCHANGED <<http, reddit, config, posts, trends, search, persist>>

Next ==
  \/ \E c \in Calls, req \in OverlapRequests, embOk \in BOOLEAN : Start(c, req, embOk)
  \/ \E c \in Calls, dbOk \in BOOLEAN : VectorSearch(c, dbOk)
  \/ \E c \in Calls, dbOk \in BOOLEAN : LexicalSearch(c, dbOk)
  \/ \E c \in Calls, key \in Range(ServiceKeys) :
       \E outcome \in Outcomes(key) : AdapterSettles(c, key, outcome)
  \/ \E c \in Calls : LiveReturn(c)
  \/ \E c \in Calls, ok \in BOOLEAN : InsertTrend(c, ok)
  \/ \E c \in Calls, i \in 1..Cardinality(Range(ServiceKeys)) :
       \E dbOk \in BOOLEAN, embOk \in BOOLEAN : CheckPost(c, i, dbOk, embOk)
  \/ \E c \in Calls, ok \in BOOLEAN : UpsertPost(c, ok)
  \/ Tick

\* any number of overlapping searches, from an empty store
Spec == Init /\ [][Next]_vars

(***************************************************************************)
(* One search over a store that earlier searches have filled.              *)
(***************************************************************************)
\* the row a background save writes for a live-fetched item: scored,
\* normalised for the response, converted, embedded (or not), upserted
Ingest(rows, item, embOk, t) ==
  LET result == normalizeAndTruncatePost(WithMomentum(item, t))
      pc == toPostCreate(result, t)
      emb == generateEmbedding(TextForEmbedding(pc), embOk)
  IN Upsert(rows, PostToUpsert(pc, emb, t), t)

Stores ==
  {{},
   Ingest({}, Y1, TRUE, StartTime),
   Ingest(Ingest(Ingest({}, R1a, TRUE, StartTime), Y1, TRUE, StartTime), T1, FALSE, StartTime)}

InitSearch ==
  /\ config \in Credentials
  /\ now = StartTime
  /\ posts \in Stores
  /\ trends = {}
  /\ search = [c \in Calls |-> IdleSearch]
  /\ persist = [c \in Calls |-> IdlePersist]
  /\ reddit = IdleReddit
  /\ http = IdleHttp

FirstCall == {c \in Calls : \A d \in Calls : c <= d}

NextSearch ==
  \/ \E c \in FirstCall, req \in Requests, embOk \in BOOLEAN : Start(c, req, embOk)
  \/ \E c \in FirstCall, dbOk \in BOOLEAN : VectorSearch(c, dbOk)
  \/ \E c \in FirstCall, dbOk \in BOOLEAN : LexicalSearch(c, dbOk)
  \/ \E c \in FirstCall, key \in Range(ServiceKeys) :
       \E outcome \in Outcomes(key) : AdapterSettles(c, key, outcome)
  \/ \E c \in FirstCall, key \in Range(ServiceKeys) : AdapterMocks(c, key)
  \/ \E c \in FirstCall : LiveReturn(c)
  \/ \E c \in FirstCall, ok \in BOOLEAN : InsertTrend(c, ok)
  \/ \E c \in FirstCall, i \in 1..Cardinality(Range(ServiceKeys)) :
       \E dbOk \in BOOLEAN, embOk \in BOOLEAN : CheckPost(c, i, dbOk, embOk)
  \/ \E c \in FirstCall, ok \in BOOLEAN : UpsertPost(c, ok)
  \/ Tick

SearchSpec == InitSearch /\ [][NextSearch]_vars

(***************************************************************************)
(* Overlapping background saves, each started with the result of a live    *)
(* fetch.                                                                  *)
(***************************************************************************)
SaveRequest ==
  [keyword |-> Keyword, platforms |-> <<"reddit", "twitter">>, timeframe |-> "all",
   limit |-> NoLimit]

\* what the adapters gave the live fetch whose result is saved
Fetched == {<<R1a>>, <<R1b>>}

\* searchTrends from the merged adapter lists on: score, filter, rank, build
\* the response and start saveSearchToDatabase(options, result)
StartSave(c, all) ==
  /\ search[c].pc = "idle"
  /\ persist[c].pc = "off"
  /\ LET platforms == validatePlatforms(SaveRequest.platforms)
         enriched == [i \in DOMAIN all |-> WithMomentum(all[i], now)]
         filtered == applyFiltersAndSort(enriched,
                                         [SaveRequest EXCEPT !.platforms = platforms], now)
     IN search' = [search EXCEPT ![c] =
          [@ EXCEPT !.pc = "returned", !.options = SaveRequest, !.platforms = platforms,
                    !.source = "live",
                    !.response = toSearchResult(SaveRequest, filtered, now)]]
  /\ persist' = [persist EXCEPT ![c] = [@ EXCEPT !.pc = "trend"]]
  /\ UNCHANGED <<http, reddit, config, now, posts, trends>>

NextPersist ==
  \/ \E c \in Calls, all \in Fetched : StartSave(c, all)
  \/ \E c \in Calls, ok \in BOOLEAN : InsertTrend(c, ok)
  \/ \E c \in Calls, i \in 1..Cardinality(Range(ServiceKeys)) :
       \E dbOk \in BOOLEAN, embOk \in BOOLEAN : CheckPost(c, i, dbOk, embOk)
  \/ \E c \in Calls, ok \in BOOLEAN : UpsertPost(c, ok)
  \/ Tick

\* no adapter is called here: one set of credentials stands for all
InitPersist ==
  /\ config = CHOOSE cfg \in Credentials : \A key \in Range(ServiceKeys) : isAvailable(key, cfg)
  /\ now = StartTime
  /\ posts = {}
  /\ trends = {}
  /\ search = [c \in Calls |-> IdleSearch]
  /\ persist = [c \in Calls |-> IdlePersist]
  /\ reddit = IdleReddit
  /\ http = IdleHttp

PersistSpec == InitPersist /\ [][NextPersist]_vars

(***************************************************************************)
(* Properties of the posts table (specification PersistSpec; C2: Spec).     *)
(***************************************************************************)
\* C1: in every reachable state of the store no two rows of the posts table
\* share (platform, platformId), whatever the interleaving of the background
\* saves, two saves that both found the key absent and both wrote included.
C1_UniqueKey == \A r \in posts : \A q \in posts : SameKey(r, q) => r = q

\* two saves have both taken the same key for new and both have written it
C1_BothWrote ==
  \E c \in Calls : \E d \in Calls \ {c} :
    \E i \in persist[c].done : \E j \in persist[d].done :
      /\ SameKey(persist[c].toInsert[i], persist[d].toInsert[j])
      /\ persist[c].last = "inserted"
      /\ persist[d].last = "updated"

\* C2: when the same native item is ingested by two successive live-fetch
\* searches whose background saves both complete, the stored row keeps the
\* author, content, title and publishedAt of the first ingestion and ends with
\* the metrics and momentumScore of the second.
C2_SecondIngestRefreshes ==
  \A d \in Calls : \A c \in search[d].after :
    (persist[d].pc = "done" /\ persist[d].failed = {} /\ persist[c].failed = {}) =>
      \A i \in DOMAIN persist[c].toInsert : \A j \in DOMAIN persist[d].toInsert :
        LET first == persist[c].toInsert[i]
            second == persist[d].toInsert[j]
        IN SameKey(first, second) =>
             \E r \in posts :
               /\ SameKey(r, second)
               /\ r.author = first.author
               /\ r.content = first.content
               /\ r.title = first.title
               /\ r.publishedAt = first.publishedAt
               /\ r.metrics = second.metrics
               /\ r.momentumScore = second.momentumScore

\* C3: a write that hits an existing (platform, platformId) leaves the row's
\* author, content, title, publishedAt, link, thumbnail and createdAt (and its
\* id and key) as they were; only metrics, momentumScore, embedding and
\* updatedAt may change.
C3_UpsertFrame ==
  [][\A r \in posts : \E q \in posts' :
       /\ q.id = r.id
       /\ SameKey(q, r)
       /\ q.author = r.author
       /\ q.content = r.content
       /\ q.title = r.title
       /\ q.publishedAt = r.publishedAt
       /\ q.link = r.link
       /\ q.thumbnail = r.thumbnail
       /\ q.createdAt = r.createdAt]_vars

\* a row written from the first fetch of r1 carries the counters of the second
C3_RowUpdated ==
  \E r \in posts : r.author = R1a.author /\ r.metrics = R1b.metrics

(***************************************************************************)
(* Properties of one search (specification SearchSpec).                    *)
(***************************************************************************)
\* C4: when an adapter call of the fan-out rejects, the search does not fail,
\* that platform maps to the empty list and every other requested platform
\* maps to exactly the list its adapter resolved to (every issued call has
\* settled by then).
C4_FanOutIsolation ==
  \A c \in Calls :
    /\ search[c].pc # "failed"
    /\ search[c].source = "live" =>
         /\ search[c].pending = {}
         /\ \A key \in Range(search[c].platforms) :
              /\ MapHas(search[c].results, key)
              /\ MapGet(search[c].results, key) =
                   IF key \in search[c].invoked /\ OutcomeOf(c, key).ok
                   THEN OutcomeOf(c, key).posts ELSE <<>>

\* a live fetch has returned with one call rejected and another's list kept
C4_OneRejected ==
  \E c \in Calls :
    /\ search[c].source = "live"
    /\ \E key \in search[c].invoked : ~OutcomeOf(c, key).ok
    /\ \E key \in search[c].invoked :
         OutcomeOf(c, key).ok /\ MapGet(search[c].results, key) # <<>>

\* C5: adapters are called only after the store tier came back empty; a
\* non-empty filtered store list is what the call returns, and no adapter
\* search is invoked.
C5_StoreFirst ==
  \A c \in Calls :
    /\ (search[c].invoked # {} \/ search[c].pc = "await" \/ search[c].source = "live") =>
         (search[c].stored = <<>> /\ (search[c].vector \/ search[c].lexical))
    /\ search[c].stored # <<>> =>
         /\ search[c].pc = "returned"
         /\ search[c].source \in {"vector", "lexical"}
         /\ search[c].invoked = {}
         /\ search[c].settled = {}
         /\ search[c].response.results =
              [i \in DOMAIN search[c].stored |-> normalizeAndTruncatePost(search[c].stored[i])]

\* the vector query has answered a search whose platforms have adapters to call
C5_StoreHit ==
  \E c \in Calls :
    /\ search[c].source = "vector"
    /\ search[c].response.results # <<>>
    /\ Issued(search[c].platforms) # <<>>

\* C6: the lexical query is attempted exactly when no embedding of the keyword
\* could be produced; with an embedding, an empty filtered vector result leads
\* to the live fetch without a lexical attempt.
C6_LexicalIffNoEmbedding ==
  \A c \in Calls :
    /\ search[c].pc = "lexical" => search[c].embedding = "failed"
    /\ search[c].pc = "vector" => search[c].embedding = "ok"
    /\ search[c].pc \in {"await", "returned", "failed"} =>
         /\ search[c].lexical <=> search[c].embedding = "failed"
         /\ search[c].vector <=> search[c].embedding = "ok"

\* a search with an embedding is at the live fetch although rows of the store
\* contain the keyword
C6_VectorMissGoesLive ==
  \E c \in Calls :
    /\ search[c].pc = "await"
    /\ search[c].embedding = "ok"
    /\ ~search[c].lexical
    /\ \E r \in posts : MatchesKeyword(r, search[c].options.keyword)

C8_AtMostLimit ==
  \A c \in Calls :
    search[c].response # NoResponse =>
      Len(search[c].response.results) <=
        IF search[c].options.limit = NoLimit THEN 50 ELSE search[c].options.limit

\* C9: for a timeframe of 1h, 24h, 7d, 30d or 1y no response item was published
\* earlier than the filter time minus that duration, on every retrieval path;
\* with 'all' or an unrecognised token no fetched item is dropped for its age.
C9_TimeframeCutoff ==
  \A c \in Calls :
    search[c].response # NoResponse =>
      LET tf == search[c].options.timeframe
          at == search[c].response.searchTime
          res == search[c].response.results
          fetched == MapValues(search[c].results)
          hours == CASE tf = "1h" -> 1
                     [] tf = "24h" -> 24
                     [] tf = "7d" -> 168
                     [] tf = "30d" -> 720
                     [] tf = "1y" -> 8760
                     [] OTHER -> 0
      IN IF tf \in {"1h", "24h", "7d", "30d", "1y"}
         THEN \A i \in DOMAIN res : res[i].publishedAt >= at - hours
         ELSE search[c].source = "live" =>
                \A k \in DOMAIN fetched :
                  Includes(search[c].platforms, fetched[k].platform) =>
                    \E i \in DOMAIN res : SameKey(res[i], fetched[k])

\* a live fetch over 7 days has kept a recent item and dropped an older one
C9_OldItemDropped ==
  \E c \in Calls :
    LET fetched == MapValues(search[c].results)
    IN /\ search[c].source = "live"
       /\ search[c].options.timeframe = "7d"
       /\ search[c].response.results # <<>>
       /\ \E k \in DOMAIN fetched :
            /\ Includes(search[c].platforms, fetched[k].platform)
            /\ fetched[k].publishedAt < search[c].response.searchTime - 168

\* C10: the platform of every response item belongs to the normalised set of
\* requested platforms; rows of other platforms in the store are never returned.
C10_RequestedPlatformsOnly ==
  \A c \in Calls :
    search[c].response # NoResponse =>
      \A i \in DOMAIN search[c].response.results :
        Includes(validatePlatforms(search[c].options.platforms),
                 search[c].response.results[i].platform)

\* the store has answered a search while holding rows of a platform not asked for
C10_OtherPlatformStored ==
  \E c \in Calls :
    /\ search[c].source \in {"vector", "lexical"}
    /\ search[c].response.results # <<>>
    /\ \E r \in posts :
         ~Includes(validatePlatforms(search[c].options.platforms), r.platform)

\* C11: the results of every response are ordered by momentumScore descending,
\* on every retrieval path, and (checked on the live fetch, whose input is the
\* merged adapter lists) items of equal score keep their input order.
C11_SortedStable ==
  \A c \in Calls :
    search[c].response # NoResponse =>
      LET res == search[c].response.results
          fetched == MapValues(search[c].results)
          input == [k \in DOMAIN fetched |->
                      normalizeAndTruncatePost(
                        WithMomentum(fetched[k], search[c].response.searchTime))]
          Returned(p) == \E i \in DOMAIN res : res[i] = p
          kept == SelectSeq(input, Returned)
      IN /\ \A i \in 1..(Len(res) - 1) : res[i].momentumScore >= res[i + 1].momentumScore
         /\ search[c].source = "live" =>
              \A i \in DOMAIN res :
                LET Equal(p) == p.momentumScore = res[i].momentumScore
                IN SelectSeq(res, Equal) = SelectSeq(kept, Equal)

\* a live fetch has returned two different items of equal score first, and
\* moved the second item of its input behind them
C11_TieReordered ==
  \E c \in Calls :
    LET res == search[c].response.results
        fetched == MapValues(search[c].results)
    IN /\ search[c].source = "live"
       /\ Len(res) >= 3
       /\ Len(fetched) >= 3
       /\ res[1].momentumScore = res[2].momentumScore
       /\ res[1] # res[2]
       /\ SameKey(res[Len(res)], fetched[2])

\* C12: no response holds two items with the same (platform, platformId): of
\* a key that occurs more than once in the fan-out batch only the first
\* occurrence is returned.
C12_NoDuplicateKeys ==
  \A c \in Calls :
    search[c].response # NoResponse =>
      LET res == search[c].response.results
      IN \A i \in DOMAIN res : \A j \in DOMAIN res : SameKey(res[i], res[j]) => i = j

(***************************************************************************)
(* PlatformFactory.searchTrendsAcrossPlatforms called on its own, with any *)
(* list of platform names (specification FanOutSpec).                      *)
(***************************************************************************)
FanOutInputs ==
  {<<"reddit", "tiktok", "youtube">>, <<"x", "twitter">>, <<"tiktok", "reddit", "tiktok">>,
   <<>>}

\* the call up to `await Promise.all(searchPromises)`
StartFanOut(c, platforms) ==
  /\ search[c].pc = "idle"
  /\ search' = [search EXCEPT ![c] =
       [@ EXCEPT !.pc = "fanout", !.platforms = platforms,
                 !.invoked = Range(Issued(platforms)),
                 !.pending = Range(Issued(platforms)),
                 !.results = UnavailableEntries(platforms)]]
  /\ UNCHANGED <<http, reddit, config, now, posts, trends, persist>>

\* Promise.all has settled: the entries are set and the map is returned, or
\* the rejection of Promise.all is thrown
FanOutReturns(c) ==
  /\ search[c].pc = "fanout"
  /\ search[c].pending = {}
  /\ LET entries == SearchResults(c)
     IN search' = [search EXCEPT ![c] =
          IF \A i \in DOMAIN entries : entries[i].ok
          THEN [@ EXCEPT !.pc = "fanned", !.results = MapSetAll(@, entries)]
          ELSE [@ EXCEPT !.pc = "failed"]]
  /\ UNCHANGED <<http, reddit, config, now, posts, trends, persist>>

NextFanOut ==
  \/ \E c \in Calls, platforms \in FanOutInputs : StartFanOut(c, platforms)
  \/ \E c \in Calls, key \in Range(ServiceKeys) :
       \E outcome \in Outcomes(key) : AdapterSettles(c, key, outcome)
  \/ \E c \in Calls, key \in Range(ServiceKeys) : AdapterMocks(c, key)
  \/ \E c \in Calls : FanOutReturns(c)

FanOutSpec == Init /\ [][NextFanOut]_vars

\* C13: the fan-out never calls an adapter whose isAvailable() is false, nor a
\* platform without a registered adapter; each such requested platform maps to
\* the empty list, and the returned map has exactly one entry for every
\* requested platform (and no other).
C13_OnlyAvailableCalled ==
  \A c \in Calls :
    LET asked == Range(search[c].platforms)
        results == search[c].results
    IN /\ \A key \in search[c].invoked :
            key \in asked /\ Includes(ServiceKeys, key) /\ isAvailable(key, config)
       /\ \A e \in search[c].settled : e.key \in search[c].invoked
       /\ search[c].pc = "fanned" =>
            /\ \A key \in asked :
                 /\ Cardinality({i \in DOMAIN results : results[i].key = key}) = 1
                 /\ key \notin search[c].invoked => MapGet(results, key) = <<>>
            /\ \A i \in DOMAIN results : results[i].key \in asked

\* a fan-out has returned a map for a request that names an unregistered
\* platform and an adapter without credentials, with another adapter's list in it
C13_SomeSkipped ==
  \E c \in Calls :
    /\ search[c].pc = "fanned"
    /\ \E key \in Range(search[c].platforms) : ~Includes(ServiceKeys, key)
    /\ \E key \in Range(search[c].platforms) :
         Includes(ServiceKeys, key) /\ ~isAvailable(key, config)
    /\ \E key \in search[c].invoked : MapGet(search[c].results, key) # <<>>

\* C14: for every registered adapter isAvailable() is true exactly when the
\* adapter's required credentials are present (reddit: client id and secret,
\* youtube: API key, twitter: bearer token), and a searchTrends call never
\* attempts the search of an adapter constructed without them.
C14_AvailableIffCredentials ==
  LET present == [key \in Range(ServiceKeys) |->
                    CASE key = "reddit" -> config.clientId /\ config.clientSecret
                      [] key = "youtube" -> config.youtubeKey
                      [] OTHER -> config.bearer]
  IN \A c \in Calls :
       search[c].pc \in {"await", "returned"} /\ search[c].source \in {"none", "live"} =>
         \A key \in Range(search[c].platforms) :
           /\ isAvailable(key, config) <=> present[key]
           /\ key \in search[c].invoked <=> present[key]

(***************************************************************************)
(* One search, some of whose adapter calls never settle (specification     *)
(* HangSpec).                                                              *)
(***************************************************************************)
\* the promise of service.searchTrends(keyword, options) stays pending for
\* ever: the HTTP clients are created without a timeout and the fan-out
\* awaits Promise.all of the calls as they are
AdapterHangs(c, key) ==
  /\ search[c].pc = "await"
  /\ key \in search[c].pending \ search[c].hung
  /\ ~useMockData(key, config)
  /\ search' = [search EXCEPT ![c] = [@ EXCEPT !.hung = @ \cup {key}]]
  /\ UNCHANGED <<http, reddit, config, now, posts, trends, persist>>

NextHang ==
  \/ NextSearch
  \/ \E c \in FirstCall, key \in Range(ServiceKeys) : AdapterHangs(c, key)

HangSpec == InitSearch /\ [][NextHang]_vars

\* C15: one adapter call that never completes cannot stall searchTrends: once
\* every other call of the fan-out has settled, the search can go on to build
\* its response (with an empty contribution of the hung platform).
C15_HungAdapterBounded ==
  \A c \in Calls :
    (/\ search[c].pc = "await"
     /\ search[c].hung # {}
     /\ search[c].pending = search[c].hung) =>
      ENABLED (\/ LiveReturn(c)
               \/ \E key \in search[c].hung : \E outcome \in Outcomes(key) :
                    AdapterSettles(c, key, outcome))


(***************************************************************************)
(* Fetch failures inside the adapters: the request to the platform's API   *)
(* throws (network error, timeout of the transport, malformed body) and    *)
(* the adapter's own catch block decides what the call resolves to.        *)
(***************************************************************************)
getPlatformName(key) == IF key = "x" THEN "twitter" ELSE key

\* the value of the catch block of each adapter's searchTrends
OnFetchError(key, options, t) ==
  IF key \in {"twitter", "x"} THEN getMockData(options, t) ELSE <<>>

AdapterFetchFails(c, key) ==
  /\ search[c].pc = "await"
  /\ key \in search[c].pending \ search[c].hung
  /\ ~useMockData(key, config)
  /\ search' = [search EXCEPT ![c] =
       [@ EXCEPT !.pending = @ \ {key},
                 !.fetchFailed = @ \cup {key},
                 !.settled = @ \cup {[key |-> key,
                      outcome |-> Resolved(OnFetchError(key, search[c].options, now))]}]]
  /\ UNCHANGED <<http, reddit, config, now, posts, trends, persist>>

\* the requests of a search whose fetches may fail
FetchRequests ==
  [keyword : {Keyword}, platforms : {<<"reddit", "youtube">>, <<"twitter">>, <<"x", "twitter">>},
   timeframe : {"1h", "24h"}, limit : {NoLimit}]

NextFetch ==
  \/ \E c \in FirstCall, req \in FetchRequests, embOk \in BOOLEAN : Start(c, req, embOk)
  \/ \E c \in FirstCall, dbOk \in BOOLEAN : VectorSearch(c, dbOk)
  \/ \E c \in FirstCall, dbOk \in BOOLEAN : LexicalSearch(c, dbOk)
  \/ \E c \in FirstCall, key \in Range(ServiceKeys) :
       \E outcome \in Outcomes(key) : AdapterSettles(c, key, outcome)
  \/ \E c \in FirstCall, key \in Range(ServiceKeys) : AdapterMocks(c, key)
  \/ \E c \in FirstCall, key \in Range(ServiceKeys) : AdapterFetchFails(c, key)
  \/ \E c \in FirstCall : LiveReturn(c)
  \/ \E c \in FirstCall, ok \in BOOLEAN : InsertTrend(c, ok)
  \/ \E c \in FirstCall, i \in 1..Cardinality(Range(ServiceKeys)) :
       \E dbOk \in BOOLEAN, embOk \in BOOLEAN : CheckPost(c, i, dbOk, embOk)
  \/ \E c \in FirstCall, ok \in BOOLEAN : UpsertPost(c, ok)
  \/ Tick

FetchSpec == InitSearch /\ [][NextFetch]_vars

\* C16: a platform whose fetch failed contributes an empty list to the
\* live response, and when every adapter of that platform failed no item of
\* the response and no item handed to the background save is attributed to it.
C16_FailedFetchIsEmpty ==
  \A c \in Calls :
    (search[c].pc = "returned" /\ search[c].source = "live") =>
      \A key \in search[c].fetchFailed :
        /\ MapGet(search[c].results, key) = <<>>
        /\ (\A other \in search[c].invoked :
               getPlatformName(other) = getPlatformName(key) => other \in search[c].fetchFailed) =>
             /\ \A i \in DOMAIN search[c].response.results :
                  search[c].response.results[i].platform # getPlatformName(key)
             /\ \A i \in DOMAIN persist[c].toInsert :
                  persist[c].toInsert[i].platform # getPlatformName(key)

\* C17: once the background save of a call has been started the call has
\* returned its complete response, and no step taken afterwards (a save that
\* succeeds, fails at any step or stops for ever) changes what the caller got.
C17_ResponseIndependentOfSave ==
  [][\A c \in Calls :
       persist[c].pc # "off" =>
         /\ search[c].pc = "returned"
         /\ search[c].source = "live"
         /\ search[c].response # NoResponse
         /\ search'[c] = search[c]]_vars

C17_SaveFailedAfterReturn ==
  \E c \in Calls :
    /\ search[c].pc = "returned"
    /\ search[c].response.totalResults > 0
    /\ \/ persist[c].pc = "aborted"
       \/ persist[c].pc = "done" /\ persist[c].failed # {}

\* C18: the background save is started only by a response of the live fetch;
\* a call answered from the store starts no save, inserts no trend row of its
\* own and, with no live call around, leaves the posts table as it was.
C18_SaveOnlyAfterLiveFetch ==
  [][\A c \in Calls :
       /\ persist'[c].pc # "off" => search'[c].source = "live"
       /\ search[c].source \in {"vector", "lexical"} =>
            /\ persist'[c] = IdlePersist
            /\ \A t \in trends' : t.id[1] # c
            /\ (\A d \in Calls : search[d].source # "live") =>
                 (posts' = posts /\ trends' = trends)]_vars

C18_StoreAnsweredLater ==
  \E c \in Calls :
    /\ search[c].pc = "returned"
    /\ search[c].source \in {"vector", "lexical"}
    /\ search[c].response.totalResults > 0
    /\ now > StartTime
    /\ persist[c] = IdlePersist

\* C19: a call inserts at most one trend row, and a row of the trends table is
\* never changed or removed afterwards.
C19_OneTrendRowForGood ==
  [][/\ trends \subseteq trends'
     /\ \A c \in Calls : Cardinality({t \in trends' : t.id[1] = c}) <= 1
     /\ \A c \in Calls : persist[c].trend => {t \in trends' : t.id[1] = c} = {t \in trends : t.id[1] = c}]_vars

C19_TwoCallsTwoRows ==
  /\ Cardinality(trends) >= 2
  /\ \E c \in Calls : persist[c].pc = "done" /\ persist[c].trend

(***************************************************************************)
(* The catch block of searchTrends.  The awaited fan-out is the only call  *)
(* of the try block that is not wrapped by a catch of its own; the three   *)
(* adapters of the registry never make it reject, so the rejection is a    *)
(* fault of the collaborator (an adapter that throws before it returns its *)
(* promise).                                                               *)
(***************************************************************************)
\* variant: the failure is raised after the background save has been started
SearchRaisesAfterSave(c) ==
  /\ search[c].pc = "await"
  /\ search' = [search EXCEPT ![c] = [@ EXCEPT !.pc = "failed"]]
  /\ persist' = [persist EXCEPT ![c] = [@ EXCEPT !.pc = "trend"]]
  /\ UNCHANGED <<http, reddit, config, now, posts, trends>>

\* catch (e) { throw new Error(`Failed to search trends: ...`) }
SearchRaises(c) ==
  /\ search[c].pc = "await"
  /\ search' = [search EXCEPT ![c] = [@ EXCEPT !.pc = "failed"]]
  /\ UNCHANGED <<http, reddit, config, now, posts, trends, persist>>

NextRaise ==
  \/ NextFetch
  \/ \E c \in FirstCall : SearchRaises(c)

RaiseSpec == InitSearch /\ [][NextRaise]_vars

\* C20: a call of searchTrends ends either with a complete response (keyword,
\* platforms, results, totalResults, searchTime) or with the wrapped failure
\* and no response at all; a call that raised has started no background save.
C20_ResponseOrFailure ==
  \A c \in Calls :
    /\ search[c].pc = "returned" =>
         /\ search[c].response.keyword = search[c].options.keyword
         /\ search[c].response.platforms \in {search[c].options.platforms, search[c].platforms}
         /\ search[c].response.totalResults = Len(search[c].response.results)
         /\ search[c].response.searchTime >= StartTime
    /\ search[c].pc = "failed" =>
         /\ search[c].response = NoResponse
         /\ persist[c] = IdlePersist
         /\ \A t \in trends : t.id[1] # c
    /\ search[c].pc \notin {"returned", "failed"} =>
         /\ search[c].response = NoResponse
         /\ persist[c] = IdlePersist

C20_RaisedWithPartialResults ==
  \E c \in Calls :
    /\ search[c].pc = "failed"
    /\ \E s \in search[c].settled : s.outcome.ok /\ s.outcome.posts # <<>>

\* C21: for every list of platform tokens validatePlatforms returns a
\* duplicate-free list of canonical identifiers among reddit, youtube, twitter.
C21_CanonicalPlatforms ==
  \A c \in Calls :
    search[c].pc # "idle" =>
      /\ search[c].platforms = validatePlatforms(search[c].options.platforms)
      /\ Unique(search[c].platforms) = search[c].platforms
      /\ \A i \in DOMAIN search[c].platforms :
           search[c].platforms[i] \in {"reddit", "youtube", "twitter"}

(***************************************************************************)
(* Searches over a store that holds a post with a long content and a long  *)
(* title, which the platform still returns.                                *)
(***************************************************************************)
LongStores == {{}, Ingest({}, R1b, TRUE, StartTime)}

LongRequests ==
  [keyword : {Keyword}, platforms : {<<"reddit">>, <<"twitter", "reddit">>},
   timeframe : {"7d", "all"}, limit : {NoLimit}]

InitLong ==
  /\ config \in Credentials
  /\ now = StartTime
  /\ posts \in LongStores
  /\ trends = {}
  /\ search = [c \in Calls |-> IdleSearch]
  /\ persist = [c \in Calls |-> IdlePersist]
  /\ reddit = IdleReddit
  /\ http = IdleHttp

NextLong ==
  \/ \E c \in FirstCall, req \in LongRequests, embOk \in BOOLEAN : Start(c, req, embOk)
  \/ \E c \in FirstCall, dbOk \in BOOLEAN : VectorSearch(c, dbOk)
  \/ \E c \in FirstCall, dbOk \in BOOLEAN : LexicalSearch(c, dbOk)
  \/ \E c \in FirstCall, key \in Range(ServiceKeys) :
       \E outcome \in Outcomes(key) : AdapterSettles(c, key, outcome)
  \/ \E c \in FirstCall, key \in Range(ServiceKeys) : AdapterMocks(c, key)
  \/ \E c \in FirstCall : LiveReturn(c)
  \/ \E c \in FirstCall, ok \in BOOLEAN : InsertTrend(c, ok)
  \/ \E c \in FirstCall, i \in 1..Cardinality(Range(ServiceKeys)) :
       \E dbOk \in BOOLEAN, embOk \in BOOLEAN : CheckPost(c, i, dbOk, embOk)
  \/ \E c \in FirstCall, ok \in BOOLEAN : UpsertPost(c, ok)
  \/ Tick

LongSpec == InitLong /\ [][NextLong]_vars

\* the texts as the platforms hold them
SourceTexts ==
  {R1a.content, R1a.title, R1b.content, R1b.title, Y1.content, T1.content,
   MockTweet(StartTime).content}

\* the text a caller is to see for a source text under the bound maxLength
Shown(text, maxLength) ==
  IF text.len <= maxLength THEN text
  ELSE [id |-> text.id, len |-> maxLength, dots |-> 3]

\* C22: on every retrieval path each content of a response is the source
\* content when that has at most 600 characters and else its first 600
\* characters and '...'; each title likewise with 200 characters.
C22_UniformTruncation ==
  \A c \in Calls :
    search[c].pc = "returned" =>
      \A i \in DOMAIN search[c].response.results :
        LET item == search[c].response.results[i]
        IN /\ \E text \in SourceTexts :
                text.id = item.content.id /\ item.content = Shown(text, MaxContentLength)
           /\ item.title # NoText =>
                \E text \in SourceTexts :
                  text.id = item.title.id /\ item.title = Shown(text, MaxTitleLength)

C22_LongTextFromStore ==
  \E c \in Calls :
    /\ search[c].pc = "returned"
    /\ search[c].source = "lexical"
    /\ \E i \in DOMAIN search[c].response.results :
         /\ search[c].response.results[i].content.dots = 3
         /\ search[c].response.results[i].title.dots = 3

(***************************************************************************)
(* The scorer applied to items that carry no score: each item is saved on  *)
(* its own, as by the save of a one-item result, and its row keeps the     *)
(* score computed at the time of the save.                                 *)
(***************************************************************************)
MaxScored == 2

ScoreMetrics ==
  {[likes |-> 0], [likes |-> 7], [likes |-> 3, retweets |-> 4],
   [likes |-> 15, replies |-> NoScore], [likes |-> 1500]}

\* publishedAt relative to StartTime: long ago, recent, now, in the future
ScoreAges == {0 - 5, 0, 1, 3, 100}

ScoreItem(metrics, age) ==
  [id |-> "twitter_s", platformId |-> "s" \o ToString(Engagement(metrics)) \o "_" \o
                                      ToString(Cardinality(DOMAIN metrics)) \o "_" \o ToString(age + 5),
   platform |-> "twitter", author |-> "cy", content |-> Text("ai thread", 100),
   title |-> NoText, metrics |-> metrics, link |-> "twitter.com/s", thumbnail |-> "",
   publishedAt |-> StartTime - age, createdAt |-> StartTime - age, momentumScore |-> NoScore]

ScoreItems == {ScoreItem(m, a) : m \in ScoreMetrics, a \in ScoreAges}

InitScore ==
  /\ config \in Credentials
  /\ now = StartTime
  /\ posts = {}
  /\ trends = {}
  /\ search = [c \in Calls |-> IdleSearch]
  /\ persist = [c \in Calls |-> IdlePersist]
  /\ reddit = IdleReddit
  /\ http = IdleHttp

SaveItem(item) ==
  /\ Cardinality(posts) < MaxScored
  /\ posts' = Ingest(posts, item, TRUE, now)
  /\ UNCHANGED <<http, reddit, config, now, trends, search, persist>>

NextScore ==
  \/ \E item \in ScoreItems : SaveItem(item)
  \/ Tick

ScoreSpec == InitScore /\ [][NextScore]_vars

\* C23: of two items scored at the same time, with equal total engagement the
\* older one never gets the strictly higher score, and with equal publishedAt
\* the one with the higher total engagement never gets the lower score.
C23_MomentumMonotone ==
  \A a \in posts, b \in posts :
    a.updatedAt = b.updatedAt =>
      /\ (Engagement(a.metrics) = Engagement(b.metrics) /\ a.publishedAt < b.publishedAt) =>
           a.momentumScore <= b.momentumScore
      /\ (a.publishedAt = b.publishedAt /\ Engagement(a.metrics) > Engagement(b.metrics)) =>
           a.momentumScore >= b.momentumScore

C23_OlderScoresLower ==
  \E a \in posts, b \in posts :
    /\ a.updatedAt = b.updatedAt
    /\ Engagement(a.metrics) = Engagement(b.metrics)
    /\ a.metrics # b.metrics
    /\ a.publishedAt < b.publishedAt
    /\ a.momentumScore < b.momentumScore

\* C24: the score of an item is its total engagement (a missing metric counts
\* as 0) divided by max(0.0001, hours since publishedAt), rounded to two
\* decimals; it is never negative, also for a publishedAt at or after the
\* time of the evaluation.
C24_ScoreFormula ==
  \A r \in posts :
    LET counted == {n \in DOMAIN r.metrics : r.metrics[n] # NoScore}
        engagement == SumMetrics(r.metrics, counted)
        hours == r.updatedAt - r.publishedAt
        s == r.momentumScore
    IN /\ s >= 0
       /\ hours >= 1 => (2 * hours * s <= 200 * engagement + hours
                         /\ 200 * engagement + hours < 2 * hours * (s + 1))
       /\ hours < 1 => s = 100 * (engagement * 10000)

C24_FutureItemScored ==
  \E r \in posts :
    /\ r.publishedAt > r.updatedAt
    /\ r.momentumScore > 0
    /\ \E n \in DOMAIN r.metrics : r.metrics[n] = NoScore

(***************************************************************************)
(* The save of a result list in which one key occurs more than once, with  *)
(* different field values.                                                 *)
(***************************************************************************)
DupFetched == {<<R1a, R1b>>, <<R1b, T1, R1a>>, <<T1, T1, R1b>>}

NextDedup ==
  \/ \E c \in FirstCall, all \in DupFetched : StartSave(c, all)
  \/ \E c \in FirstCall, ok \in BOOLEAN : InsertTrend(c, ok)
  \/ \E c \in FirstCall, i \in 1..Cardinality(Range(ServiceKeys)) :
       \E dbOk \in BOOLEAN, embOk \in BOOLEAN : CheckPost(c, i, dbOk, embOk)
  \/ \E c \in FirstCall, ok \in BOOLEAN : UpsertPost(c, ok)
  \/ Tick

DedupSpec == InitPersist /\ [][NextDedup]_vars

\* C25: in one run of the save the posts to write hold each key of the result
\* list once, with the field values of its first occurrence; each of them is
\* attempted at most once and no other value of the key reaches the table.
C25_FirstOccurrenceWins ==
  \A c \in Calls :
    persist[c].trend =>
      LET results == search[c].response.results
          toInsert == persist[c].toInsert
          First(p) == CHOOSE j \in DOMAIN results :
                        /\ SameKey(results[j], p)
                        /\ \A k \in DOMAIN results : SameKey(results[k], p) => j <= k
      IN /\ \A i \in DOMAIN toInsert, j \in DOMAIN toInsert :
              SameKey(toInsert[i], toInsert[j]) => i = j
         /\ \A j \in DOMAIN results : \E i \in DOMAIN toInsert : SameKey(toInsert[i], results[j])
         /\ \A i \in DOMAIN toInsert :
              /\ toInsert[i].author = results[First(toInsert[i])].author
              /\ toInsert[i].metrics = results[First(toInsert[i])].metrics
              /\ toInsert[i].content = results[First(toInsert[i])].content
         /\ persist[c].done \cap persist[c].failed = {}
         /\ persist[c].done \cup persist[c].failed \subseteq DOMAIN toInsert
         /\ \A r \in posts : \E i \in persist[c].done :
              /\ SameKey(r, toInsert[i])
              /\ r.author = toInsert[i].author
              /\ r.metrics = toInsert[i].metrics

C25_LaterOccurrenceSkipped ==
  \E c \in Calls :
    /\ persist[c].pc = "done"
    /\ Len(persist[c].toInsert) < Len(search[c].response.results)
    /\ \E j \in DOMAIN search[c].response.results, r \in posts :
         /\ SameKey(r, search[c].response.results[j])
         /\ r.author # search[c].response.results[j].author

\* C26: in one run of the save a failed upsert neither blocks nor undoes the
\* others: while new items remain the loop is at its next turn, a run that has ended
\* has attempted every new item, and every item it wrote is in the table.
C26_UpsertFailureIsolated ==
  \A c \in Calls :
    persist[c].trend =>
      /\ (AllChecked(persist[c]) /\ Remaining(persist[c]) # {}) => persist[c].pc = "check"
      /\ persist[c].pc \in {"done", "aborted"} =>
           \A i \in DOMAIN persist[c].checked :
             persist[c].checked[i].state = "new" => i \in persist[c].done \cup persist[c].failed
      /\ \A i \in persist[c].done : \E r \in posts : SameKey(r, persist[c].toInsert[i])

C26_WrittenAroundFailure ==
  \E c \in Calls :
    /\ persist[c].pc = "done"
    /\ \E i \in persist[c].done, j \in persist[c].failed, k \in persist[c].done :
         /\ i < j
         /\ j < k
         /\ \E r \in posts : SameKey(r, persist[c].toInsert[i])
         /\ \E r \in posts : SameKey(r, persist[c].toInsert[k])

\* C27: no single failure inside the save (of the trend insert, of an
\* existence check, of an embedding) aborts the rest: when the run has ended,
\* every item of the response is in the posts table or had its own upsert fail.
C27_FailureDoesNotAbort ==
  \A c \in Calls :
    persist[c].pc \in {"done", "aborted"} =>
      \A j \in DOMAIN search[c].response.results :
        \/ \E r \in posts : SameKey(r, search[c].response.results[j])
        \/ \E i \in persist[c].failed :
             SameKey(persist[c].toInsert[i], search[c].response.results[j])

\* C28: the trend row of a search holds the normalized platform list computed
\* by validatePlatforms, not the platform tokens of the request.
C28_TrendHoldsNormalizedPlatforms ==
  \A t \in trends :
    /\ t.platforms = search[t.id[1]].platforms
    /\ t.platforms = validatePlatforms(search[t.id[1]].options.platforms)

\* C29: in a live response an item that came with a score keeps exactly that
\* score and an item that came without one has the computed score; the lists
\* the adapters delivered are afterwards what they were, item by item.
C29_LazyScoring ==
  \A c \in Calls :
    (search[c].pc = "returned" /\ search[c].source = "live") =>
      LET inputs == MapValues(search[c].results)
      IN /\ \A i \in DOMAIN search[c].response.results :
              LET item == search[c].response.results[i]
              IN \E j \in DOMAIN inputs :
                   /\ SameKey(inputs[j], item)
                   /\ item.metrics = inputs[j].metrics
                   /\ item.momentumScore =
                        IF HasScore(inputs[j]) THEN inputs[j].momentumScore
                        ELSE calculateMomentumScore(inputs[j], search[c].response.searchTime)
         /\ \A s \in search[c].settled :
              s.outcome.ok => MapGet(search[c].results, s.key) = s.outcome.posts

C29_ScoredAndUnscored ==
  \E c \in Calls :
    /\ search[c].pc = "returned"
    /\ search[c].source = "live"
    /\ \E i \in DOMAIN search[c].response.results :
         /\ search[c].response.results[i].platform = "youtube"
         /\ search[c].response.results[i].momentumScore # NoScore
    /\ \E i \in DOMAIN search[c].response.results :
         /\ search[c].response.results[i].platform = "reddit"
         /\ search[c].response.results[i].momentumScore = R1a.momentumScore
    /\ MapGet(search[c].results, "youtube") = <<Y1>>

\* C30: the list of available platforms that a search consults holds only
\* canonical identifiers (no alias such as 'x') of adapters whose credentials
\* are configured.
C30_AvailableAreConfigured ==
  \A c \in Calls :
    search[c].pc # "idle" =>
      /\ Range(search[c].platforms) \subseteq Range(getAvailablePlatforms)
      /\ \A i \in DOMAIN getAvailablePlatforms :
           LET key == getAvailablePlatforms[i]
           IN /\ key \in {"reddit", "youtube", "twitter"}
              /\ key = "reddit" => config.clientId /\ config.clientSecret
              /\ key = "youtube" => config.youtubeKey
              /\ key = "twitter" => config.bearer

(***************************************************************************)
(* The Reddit adapter: RedditService.searchTrends, its token refresh and   *)
(* the 401 interceptor of its HTTP client.  A token is the number of the   *)
(* refresh request that obtained it; expires_in is counted in clock steps. *)
(***************************************************************************)
MAX_SUBREDDITS_PER_QUERY == 6
MAX_GLOBAL_ITEMS == 100
MAX_PAGES_PER_SUB == 2
\* options.limit ?? 10 (output), options.limit ?? 25 (per subreddit), Math.min(.., 50)
DefaultLimitOut == 10
DefaultPerSubreddit == 25
MaxPerPage == 50

\* number of token requests the service may issue
MaxRefreshes == 2

Max(a, b) == IF a >= b THEN a ELSE b

\* Array.prototype.slice(0, n) for n >= 0
Slice(s, n) == SubSeq(s, 1, Min(n, Len(s)))

Topics == <<"ai", "coffee", "tech", "gaming", "crypto">>

SubredditMap(topic) ==
  CASE topic = "ai" -> <<"artificial", "MachineLearning", "OpenAI", "ChatGPT">>
    [] topic = "coffee" -> <<"Coffee", "barista", "espresso">>
    [] topic = "tech" -> <<"technology", "programming", "gadgets", "Futurology">>
    [] topic = "gaming" -> <<"gaming", "PCGaming", "PS5", "XboxSeriesX">>
    [] topic = "crypto" -> <<"CryptoCurrency", "Bitcoin", "ethereum">>

\* keyword.toLowerCase().includes(key) on the keywords of the model
KeywordIncludes(keyword, topic) ==
  <<keyword, topic>> \in {<<"ai", "ai">>, <<"crypto tech", "tech">>, <<"crypto tech", "crypto">>}

getRelevantSubreddits(keyword) ==
  LET Hit(topic) == KeywordIncludes(keyword, topic)
      found == SelectSeq(Topics, Hit)
      hits == Flatten([i \in DOMAIN found |-> SubredditMap(found[i])])
  IN Unique(hits \o <<"all", "popular">>)

\* what the platform lists: nothing, a few posts that every subreddit shares
\* with its neighbours, or sixty posts of its own per subreddit
Listings == {"none", "shared", "large"}

AllSubreddits ==
  Flatten([i \in DOMAIN Topics |-> SubredditMap(Topics[i])]) \o <<"all", "popular">>

SubredditIndex(subreddit) == CHOOSE i \in DOMAIN AllSubreddits : AllSubreddits[i] = subreddit

\* child.data of a listed post
RawPost(n) ==
  [id |-> n, stickied |-> (n % 7 = 0), ups |-> (n * 37) % 101, num_comments |-> n % 5,
   created_utc |-> StartTime - (n % 3), hasText |-> (n % 11 # 0)]

Children(listing, subreddit) ==
  LET s == SubredditIndex(subreddit)
  IN CASE listing = "shared" -> [i \in 1..3 |-> RawPost(s + i)]
       [] listing = "large" -> [i \in 1..60 |-> RawPost(100 * s + i)]
       [] OTHER -> <<>>

\* the answer to GET /r/<subreddit>/search with limit = perPage and after = cursor
PageChildren(listing, subreddit, cursor, perPage) ==
  LET children == Children(listing, subreddit)
  IN SubSeq(children, cursor + 1, Min(cursor + perPage, Len(children)))

\* data.after of that answer, 0 when there is no further page
PageAfter(listing, subreddit, cursor, perPage) ==
  IF cursor + perPage < Len(Children(listing, subreddit)) THEN cursor + perPage ELSE 0

NoPost == [id |-> "null"]

\* hours = max(0.25, age), momentumScore = round(engagement / hours * 100) / 100
normalizeRedditPost(data, t) ==
  IF data.stickied \/ ~data.hasText THEN NoPost
  ELSE LET quarters == Max(1, 4 * (t - data.created_utc))
           engagement == data.ups + data.num_comments * 2
       IN [id |-> <<"reddit_", data.id>>, platformId |-> data.id, platform |-> "reddit",
           metrics |-> [upvotes |-> data.ups, comments |-> data.num_comments],
           publishedAt |-> data.created_utc,
           momentumScore |-> (800 * engagement + quarters) \div (2 * quarters)]

\* for (const child of children) { const post = normalize(child.data); if (post) out.push(post) }
NormalizePage(children, t) ==
  LET IsPost(p) == p # NoPost
  IN SelectSeq([i \in DOMAIN children |-> normalizeRedditPost(children[i], t)], IsPost)

\* variant: every post of a chunk is pushed
AddChunkAll(all, chunk) == all \o chunk

\* the dedup loop of searchTrends: seen holds the ids and seenPlatformIds the
\* platform:platformId keys of the posts pushed so far
\* if (!seen.has(p.id) && !seenPlatformIds.has(platformKey)) all.push(p)
PushNew(all, p) ==
  IF \E i \in DOMAIN all : all[i].id = p.id \/ PostKey(all[i]) = PostKey(p)
  THEN all
  ELSE Append(all, p)

\* for (const p of chunk) { ... }: the posts of the chunk pushed in order
\* (the list pushed so far is computed, by asking for its length, before the
\* loop goes on)
RECURSIVE AddChunk(_, _)
AddChunk(all, chunk) ==
  IF chunk = <<>> THEN all
  ELSE LET pushed == PushNew(all, Head(chunk))
       IN IF Len(pushed) >= Len(all) THEN AddChunk(pushed, Tail(chunk)) ELSE all

\* all.sort((a, b) => b.momentumScore - a.momentumScore): stable, so the rank
\* of a post counts the posts that score higher and the equals listed before it
Place(list, rank) == [k \in DOMAIN list |-> list[CHOOSE i \in DOMAIN list : rank[i] = k]]

SortDescending(list) ==
  Place(list, [i \in DOMAIN list |->
                 Cardinality({j \in DOMAIN list :
                   \/ list[j].momentumScore > list[i].momentumScore
                   \/ list[j].momentumScore = list[i].momentumScore /\ j < i}) + 1])

LimitOut(limit) == IF limit = NoLimit THEN DefaultLimitOut ELSE limit
PerSubreddit(limit) == IF limit = NoLimit THEN DefaultPerSubreddit ELSE limit
PerPage(limit) == Min(PerSubreddit(limit), MaxPerPage)

\* this.accessToken && Date.now() < this.tokenExpiry
TokenValid(r, t) == r.accessToken # NoToken /\ t < r.tokenExpiry

\* client.get(url, { params }) for page `page` of subreddit number `sub`
IssueGet(r, c, sub, page, cursor, out) ==
  [r EXCEPT !.call[c].pc = "get", !.call[c].sub = sub, !.call[c].page = page,
            !.call[c].cursor = cursor, !.call[c].out = out, !.call[c].header = NoToken,
            !.call[c].requested = @ \cup {<<r.call[c].subreddits[sub], page>>}]

\* searchTrends after searchSubreddit returned chunk: dedup, the global cap,
\* the next subreddit or the final sort and slice
\* all.sort(...).slice(0, limitOut): the sort is in place
Return(r, c, sorted) ==
  [r EXCEPT !.call[c].pc = "done", !.call[c].out = <<>>, !.call[c].all = sorted,
            !.call[c].header = NoToken, !.call[c].from = "none",
            !.call[c].result = Slice(sorted, LimitOut(r.call[c].limit))]

AfterChunk(r, c, chunk) ==
  LET call == r.call[c]
      all == AddChunk(call.all, chunk)
  IN IF Len(all) >= MAX_GLOBAL_ITEMS \/ call.sub = Len(call.subreddits)
     THEN Return(r, c, SortDescending(all))
     ELSE IssueGet([r EXCEPT !.call[c].all = all], c, call.sub + 1, 0, 0, <<>>)

\* ensureAccessToken up to its await: return at once with a valid token, else
\* post the token request
ensureAccessToken(r, c, from, t) ==
  IF TokenValid(r, t)
  THEN [r EXCEPT !.call[c].pc = "resume", !.call[c].from = from]
  ELSE [r EXCEPT !.call[c].pc = "refresh", !.call[c].from = from,
                 !.call[c].post = r.refreshes + 1, !.refreshes = @ + 1]

\* searchTrends(keyword, options) up to `await this.ensureAccessToken()`
RedditSearch(c, keyword, limit) ==
  /\ reddit.call[c].pc = "idle"
  /\ TokenValid(reddit, now) \/ reddit.refreshes < MaxRefreshes
  /\ reddit' =
       IF ~isAvailable("reddit", config)
       THEN [reddit EXCEPT !.call[c].pc = "rejected", !.call[c].keyword = keyword,
                           !.call[c].limit = limit]
       ELSE ensureAccessToken(
              [reddit EXCEPT !.call[c].keyword = keyword, !.call[c].limit = limit],
              c, "search", now)
  /\ UNCHANGED <<http, config, now, posts, trends, search, persist>>

\* variant: the default header is set only when the client has none yet
StoreTokenHeaderOnce(r, token, expiry) ==
  [r EXCEPT !.accessToken = token, !.tokenExpiry = expiry,
            !.authorization = IF @ = NoToken THEN token ELSE @]

\* lines 133-136, run without an await in between
StoreToken(r, token, expiry) ==
  [r EXCEPT !.accessToken = token, !.tokenExpiry = expiry, !.authorization = token]

\* the token request of call c is answered; a failure is rethrown as 'Failed
\* to authenticate with Reddit', which ends searchTrends with [] or, inside
\* the interceptor, makes searchSubreddit return []
TokenResponds(c, ok, expiresIn) ==
  /\ reddit.call[c].pc = "refresh"
  /\ reddit' =
       IF ok
       THEN [StoreToken(reddit, reddit.call[c].post, now + expiresIn)
               EXCEPT !.call[c].pc = "resume", !.call[c].post = NoToken,
                      !.granted = Append(@, [token |-> reddit.call[c].post,
                                             expiry |-> now + expiresIn])]
       ELSE IF reddit.call[c].from = "search"
            THEN [reddit EXCEPT !.call[c].pc = "done", !.call[c].post = NoToken,
                                !.call[c].from = "none", !.call[c].result = <<>>]
            ELSE AfterChunk([reddit EXCEPT !.call[c].post = NoToken], c, <<>>)
  /\ UNCHANGED <<http, config, now, posts, trends, search, persist>>

\* the code after `await this.ensureAccessToken()`: searchTrends selects the
\* subreddits and requests the first page; the interceptor sets the header of
\* the failed request and sends it again
Resume(c) ==
  /\ reddit.call[c].pc = "resume"
  /\ reddit' =
       IF reddit.call[c].from = "search"
       THEN IssueGet(
              [reddit EXCEPT !.call[c].subreddits =
                 Slice(getRelevantSubreddits(reddit.call[c].keyword), MAX_SUBREDDITS_PER_QUERY)],
              c, 1, 0, 0, <<>>)
       ELSE [reddit EXCEPT !.call[c].pc = "get", !.call[c].header = reddit.accessToken]
  /\ UNCHANGED <<http, config, now, posts, trends, search, persist>>

Statuses == {200, 401, 500}

\* the page request of call c is answered
GetResponds(c, status) ==
  /\ reddit.call[c].pc = "get"
  /\ status = 401 => TokenValid(reddit, now) \/ reddit.refreshes < MaxRefreshes
  /\ LET call == reddit.call[c]
         subreddit == call.subreddits[call.sub]
         perPage == PerPage(call.limit)
         children == PageChildren(reddit.listing, subreddit, call.cursor, perPage)
         after == PageAfter(reddit.listing, subreddit, call.cursor, perPage)
         out == call.out \o NormalizePage(children, now)
     IN reddit' =
          CASE status = 200 ->
                 IF Len(out) >= PerSubreddit(call.limit) \/ after = 0
                    \/ call.page + 1 >= MAX_PAGES_PER_SUB
                 THEN AfterChunk(reddit, c, out)
                 ELSE IssueGet(reddit, c, call.sub, call.page + 1, after, out)
            [] status = 401 -> ensureAccessToken(reddit, c, "interceptor", now)
            [] OTHER -> AfterChunk(reddit, c, <<>>)
  /\ UNCHANGED <<http, config, now, posts, trends, search, persist>>

(***************************************************************************)
(* One searchTrends call of the Reddit adapter over a listing.             *)
(***************************************************************************)
RedditKeywords == {"ai", "news", "crypto tech"}
RedditLimits == {NoLimit, 2, 30}
ExpiresIn == {1, 2}

\* the statuses the platform answers with; the large listing is served
\* without server errors
Answers(listing) == IF listing = "large" THEN Statuses \ {500} ELSE Statuses

ListingResponds(c, status) ==
  /\ status \in Answers(reddit.listing)
  /\ GetResponds(c, status)

InitListing ==
  /\ config \in Credentials
  /\ now = StartTime
  /\ posts = {}
  /\ trends = {}
  /\ search = [c \in Calls |-> IdleSearch]
  /\ persist = [c \in Calls |-> IdlePersist]
  /\ \E listing \in Listings : reddit = [IdleReddit EXCEPT !.listing = listing]
  /\ http = IdleHttp

NextListing ==
  \/ \E c \in FirstCall, keyword \in RedditKeywords, limit \in RedditLimits :
       RedditSearch(c, keyword, limit)
  \/ \E c \in FirstCall, ok \in BOOLEAN, expiresIn \in ExpiresIn : TokenResponds(c, ok, expiresIn)
  \/ \E c \in FirstCall : Resume(c)
  \/ \E c \in FirstCall, status \in Statuses : ListingResponds(c, status)

ListingSpec == InitListing /\ [][NextListing]_vars

(***************************************************************************)
(* Overlapping searchTrends calls on one RedditService.                    *)
(***************************************************************************)
NextToken ==
  \/ \E c \in Calls : RedditSearch(c, "news", NoLimit)
  \/ \E c \in Calls, ok \in BOOLEAN : TokenResponds(c, ok, 1)
  \/ \E c \in Calls : Resume(c)
  \/ \E c \in Calls, status \in Statuses : GetResponds(c, status)
  \/ Tick

TokenSpec == Init /\ [][NextToken]_vars

\* C31: the cached accessToken, tokenExpiry and default Authorization header
\* always come from one token response, the one that arrived last (nothing is
\* cached before the first), also when overlapping searches each refresh; and
\* a step taken while the cached token is still valid issues no token request.
C31_TokenFromOneResponse ==
  /\ [](IF reddit.granted = <<>>
        THEN reddit.accessToken = NoToken /\ reddit.authorization = NoToken
        ELSE LET last == reddit.granted[Len(reddit.granted)]
             IN /\ reddit.accessToken = last.token
                /\ reddit.tokenExpiry = last.expiry
                /\ reddit.authorization = last.token)
  /\ [][TokenValid(reddit, now) => reddit'.refreshes = reddit.refreshes]_vars

\* two searches found no token, both refreshed, and the response to the first
\* request arrived after the response to the second
C31_BothRefreshed ==
  /\ Len(reddit.granted) = 2
  /\ reddit.granted[1].token = 2
  /\ reddit.granted[2].token = 1
  /\ reddit.accessToken = 1
  /\ \E c \in Calls, d \in Calls : c # d /\ reddit.call[c].pc = "get" /\ reddit.call[d].pc = "get"

\* C39: the list RedditService.searchTrends returns has no two items with the
\* same platformId (a post found in several subreddits is kept once), is
\* sorted by momentumScore descending and holds at most options.limit items,
\* 10 when no limit is given.
C39_RedditResultDeduped ==
  \A c \in Calls :
    reddit.call[c].pc = "done" =>
      LET result == reddit.call[c].result
      IN /\ \A i, j \in DOMAIN result :
              result[i].platformId = result[j].platformId => i = j
         /\ \A i, j \in DOMAIN result :
              i < j => result[i].momentumScore >= result[j].momentumScore
         /\ Len(result) <= (IF reddit.call[c].limit = NoLimit THEN 10 ELSE reddit.call[c].limit)

\* a call has returned posts of which one was listed by two of the subreddits
\* it searched, and more posts were found than the limit lets through
C39_SharedPostReturnedOnce ==
  \E c \in Calls :
    /\ reddit.call[c].pc = "done"
    /\ reddit.call[c].limit = 2
    /\ Len(reddit.call[c].result) = 2
    /\ Len(reddit.call[c].all) > 2
    /\ \E a, b \in reddit.call[c].requested, i \in DOMAIN reddit.call[c].result :
         /\ a[1] # b[1]
         /\ \E k \in DOMAIN Children(reddit.listing, a[1]) :
              Children(reddit.listing, a[1])[k].id = reddit.call[c].result[i].platformId
         /\ \E k \in DOMAIN Children(reddit.listing, b[1]) :
              Children(reddit.listing, b[1])[k].id = reddit.call[c].result[i].platformId

\* C40: during a RedditService.searchTrends call the number of accumulated
\* items never exceeds MAX_GLOBAL_ITEMS, at most MAX_SUBREDDITS_PER_QUERY
\* subreddits are requested and at most MAX_PAGES_PER_SUB pages of each.
C40_AccumulatedWithinCap ==
  \A c \in Calls :
    /\ Len(reddit.call[c].all) <= MAX_GLOBAL_ITEMS
    /\ Cardinality({q[1] : q \in reddit.call[c].requested}) <= MAX_SUBREDDITS_PER_QUERY
    /\ \A q \in reddit.call[c].requested : q[2] < MAX_PAGES_PER_SUB

(***************************************************************************)
(* The same call when every request is answered and every continuation of  *)
(* the call is run.                                                        *)
(***************************************************************************)
InitRetry ==
  /\ InitListing
  /\ reddit.listing # "large"

NextRetry ==
  \/ \E c \in FirstCall, limit \in RedditLimits : RedditSearch(c, "news", limit)
  \/ \E c \in FirstCall, ok \in BOOLEAN, expiresIn \in ExpiresIn : TokenResponds(c, ok, expiresIn)
  \/ \E c \in FirstCall : Resume(c)
  \/ \E c \in FirstCall, status \in Statuses : GetResponds(c, status)

\* a token request is answered, a continuation that is ready is run, and a
\* page request is answered (the 401 answer is possible exactly while a page
\* request is pending, so the condition leaves no request unanswered)
RetrySpec ==
  /\ InitRetry
  /\ [][NextRetry]_vars
  /\ \A c \in FirstCall :
       /\ WF_vars(\E ok \in BOOLEAN, expiresIn \in ExpiresIn : TokenResponds(c, ok, expiresIn))
       /\ WF_vars(Resume(c))
       /\ WF_vars(GetResponds(c, 401))

\* C36: every RedditService.searchTrends call terminates when each HTTP
\* request receives a response: a request answered with 401 is retried a
\* bounded number of times, also while the cached token is still valid.
C36_RedditCallTerminates ==
  \A c \in Calls : (reddit.call[c].pc = "get") ~> (reddit.call[c].pc = "done")

(***************************************************************************)
(* Overlapping searches whose adapter calls complete in any order; the     *)
(* order of completion is kept in search[c].completed.                     *)
(***************************************************************************)
OrderRequests ==
  [keyword : {Keyword}, platforms : {<<"reddit", "twitter">>}, timeframe : {"all"},
   limit : {NoLimit}]

\* AdapterSettles, the completion noted
AdapterCompletes(c, key, outcome) ==
  /\ search[c].pc = "await"
  /\ key \in search[c].pending \ search[c].hung
  /\ ~useMockData(key, config)
  /\ search' = [search EXCEPT ![c] =
       [@ EXCEPT !.pending = @ \ {key},
                 !.settled = @ \cup {[key |-> key, outcome |-> outcome]},
                 !.completed = Append(@, key)]]
  /\ UNCHANGED <<http, reddit, config, now, posts, trends, persist>>

InitOrder ==
  /\ Init
  /\ config.clientSecret
  /\ config.bearer

NextOrder ==
  \/ \E c \in Calls, req \in OrderRequests, embOk \in BOOLEAN : Start(c, req, embOk)
  \/ \E c \in Calls, dbOk \in BOOLEAN : VectorSearch(c, dbOk)
  \/ \E c \in Calls, dbOk \in BOOLEAN : LexicalSearch(c, dbOk)
  \/ \E c \in Calls, key \in Range(ServiceKeys) :
       \E outcome \in Outcomes(key) : AdapterCompletes(c, key, outcome)
  \/ \E c \in Calls : LiveReturn(c)

OrderSpec == InitOrder /\ [][NextOrder]_vars

\* C32: every adapter call of a fan-out is issued before the first of them is
\* awaited (none is pending or settled that was not invoked with the rest),
\* and two searches with the same request whose adapter calls gave the same
\* responses return the same items in the same order, whatever the order in
\* which the calls completed.
C32_OrderOfCompletionIrrelevant ==
  /\ \A c \in Calls :
       search[c].pc = "await" =>
         /\ search[c].invoked = Range(Issued(search[c].platforms))
         /\ search[c].pending \cup {e.key : e \in search[c].settled} = search[c].invoked
  /\ \A c, d \in Calls :
       /\ search[c].pc = "returned" /\ search[c].source = "live"
       /\ search[d].pc = "returned" /\ search[d].source = "live"
       /\ search[c].options = search[d].options
       /\ search[c].settled = search[d].settled
       => /\ search[c].response.results = search[d].response.results
          /\ search[c].response.totalResults = search[d].response.totalResults

\* two searches returned the same two items although their adapter calls
\* completed in opposite orders
C32_CompletedInBothOrders ==
  \E c, d \in Calls :
    /\ search[c].pc = "returned" /\ search[d].pc = "returned"
    /\ search[c].settled = search[d].settled
    /\ search[c].completed = <<"reddit", "twitter">>
    /\ search[d].completed = <<"twitter", "reddit">>
    /\ Len(search[c].response.results) = 2
    /\ search[c].response.results[1].momentumScore = search[c].response.results[2].momentumScore

\* C33: the platforms field of every searchTrends response is the normalized
\* platform list computed by validatePlatforms, whether the response was
\* served from the store or from the live fetch.
C33_ResponsePlatformsNormalized ==
  \A c \in Calls :
    search[c].pc = "returned" =>
      search[c].response.platforms = validatePlatforms(search[c].options.platforms)

\* C34: once a stored post has an embedding, no step of a background save
\* makes it absent, also when two saves of the same post race and the later
\* writer's embedding generation failed.
C34_EmbeddingKept ==
  [][\A r \in posts :
       r.embedding # NoEmbedding =>
         \E s \in posts' : SameKey(s, r) /\ s.embedding # NoEmbedding]_vars

\* C35: a store query that raises during the local tier is not surfaced to
\* the caller: the step that ends the store tier either returns the store's
\* hits or issues the live fetch, and after a failed query it is the live fetch.
C35_StoreFailureIsMiss ==
  [][\A c \in Calls :
       /\ (search[c].pc \in {"vector", "lexical"} /\ search'[c].pc # search[c].pc) =>
            \/ /\ search'[c].pc = "returned"
               /\ search'[c].source \in {"vector", "lexical"}
               /\ search'[c].response.results # <<>>
            \/ /\ search'[c].pc = "await"
               /\ search'[c].response = NoResponse
               /\ search'[c].pending = Range(Issued(search[c].platforms))
       /\ (VectorSearch(c, FALSE) \/ LexicalSearch(c, FALSE)) => search'[c].pc = "await"]_vars

\* the store holds rows that answer the request through the vector query, the
\* search ran that query and yet waits for the adapters: the query had failed
C35_LiveAfterFailedQuery ==
  \E c \in Calls :
    /\ search[c].pc = "await"
    /\ search[c].vector
    /\ search[c].pending # {}
    /\ VectorRows(posts, VectorLimit(search[c].options)) # {}
    /\ \A rows \in VectorRows(posts, VectorLimit(search[c].options)) :
         applyFiltersAndSort([i \in DOMAIN rows |-> VectorPost(rows[i], now)],
                             Validated(c), now) # <<>>

\* C37: the content and title a background save inserts for an item are the
\* content and title the caller received for it; truncating the truncated
\* post again changes nothing: no second marker, no shorter text.
C37_PersistedAsReturned ==
  /\ [](\A c \in Calls :
          search[c].pc = "returned" =>
            \A i \in DOMAIN search[c].response.results :
              LET item == search[c].response.results[i]
              IN /\ normalizeAndTruncatePost(item) = item
                 /\ normalizeAndTruncatePost(normalizeAndTruncatePost(item)) = item)
  /\ [][\A r \in posts' :
          (\A s \in posts : ~SameKey(s, r)) =>
            \E c \in Calls : \E i \in DOMAIN search[c].response.results :
              LET item == search[c].response.results[i]
              IN /\ SameKey(item, r)
                 /\ r.content = item.content
                 /\ r.title = item.title]_vars

\* a save has inserted a post whose content and title were both cut, and the
\* caller holds the same cut content and title
C37_TruncatedPostPersisted ==
  \E c \in Calls, r \in posts :
    /\ persist[c].done # {}
    /\ persist[c].last = "inserted"
    /\ posts = {r}
    /\ r.content.dots = 3 /\ r.content.len = MaxContentLength
    /\ r.title.dots = 3 /\ r.title.len = MaxTitleLength
    /\ \E i \in DOMAIN search[c].response.results :
         /\ SameKey(search[c].response.results[i], r)
         /\ search[c].response.results[i].content = r.content
         /\ search[c].response.results[i].title = r.title

(***************************************************************************)
(* The express app: the middleware chain of a request to /api/v1/trends.   *)
(*                                                                         *)
(* app.use(generalRateLimiter); app.use('/api/v1', trendsRoutes);          *)
(* app.use('/api/v1/trends', searchRateLimiter); app.use(notFoundHandler). *)
(* A middleware runs only if every one mounted before it called next().    *)
(* The router's GET /trends is TrendsController.searchTrends, which        *)
(* answers and never calls next(); any other method falls through the      *)
(* router.  All requests of the model are requests to /api/v1/trends, so   *)
(* generalRateLimiter's count of a client is the number of search requests *)
(* the client made in the window (both windows are 15 minutes).            *)
(***************************************************************************)
RATE_LIMIT_MAX_REQUESTS == 100
SearchMax == 30
\* requests the clients send within one window, all clients together
MaxRequests == 32

Methods == {"GET", "POST"}

\* rateLimit(...)(req, res, next): the hit is counted, and past max the
\* handler answers 429 instead of calling next()
Limited(hits, max) == hits + 1 > max

\* router.get('/trends', ...): the route matches GET only
Routed(method) == method = "GET"

\* TrendsController.searchTrends: 400 on a query that fails validation, else
\* the result of TrendsService.searchTrends
searchTrendsHandler(valid) ==
  IF valid THEN [status |-> 200, service |-> TRUE]
  ELSE [status |-> 400, service |-> FALSE]

Blocked == [status |-> 429, service |-> FALSE]
notFoundHandler == [status |-> 404, service |-> FALSE]

\* one request of client ip to /api/v1/trends through the chain
HandleRequest(ip, method, valid) ==
  /\ http.generalRateLimiter["a"] + http.generalRateLimiter["b"] < MaxRequests
  /\ LET general == http.generalRateLimiter[ip]
         byGeneral == Limited(general, RATE_LIMIT_MAX_REQUESTS)
         routed == ~byGeneral /\ Routed(method)
         atSearch == ~byGeneral /\ ~routed
         hits == http.searchRateLimiter[ip]
         answer == IF byGeneral THEN Blocked
                   ELSE IF routed THEN searchTrendsHandler(valid)
                   ELSE IF Limited(hits, SearchMax) THEN Blocked
                   ELSE notFoundHandler
     IN http' = [http EXCEPT
                   !.generalRateLimiter[ip] = general + 1,
                   !.searchRateLimiter[ip] = IF atSearch THEN hits + 1 ELSE hits,
                   !.last = [ip |-> ip, method |-> method, valid |-> valid,
                             status |-> answer.status, service |-> answer.service]]
  /\ UNCHANGED <<reddit, config, now, posts, trends, search, persist>>

\* windowMs after the client's first hit its counts start again
WindowElapses(ip) ==
  /\ http.generalRateLimiter[ip] > 0
  /\ http' = [http EXCEPT !.generalRateLimiter[ip] = 0, !.searchRateLimiter[ip] = 0]
  /\ UNCHANGED <<reddit, config, now, posts, trends, search, persist>>

InitHttp ==
  /\ Init
  /\ config.clientSecret /\ config.bearer

NextHttp ==
  \/ \E ip \in Clients, method \in Methods, valid \in BOOLEAN : HandleRequest(ip, method, valid)
  \/ \E ip \in Clients : WindowElapses(ip)

HttpSpec == InitHttp /\ [][NextHttp]_vars

\* C38: a search request of a client that has already made 30 search requests
\* in the window is answered 429 and does not reach TrendsService.searchTrends.
C38_SearchRequestsLimited ==
  [][\A ip \in Clients :
       (/\ http.generalRateLimiter[ip] >= SearchMax
        /\ http'.generalRateLimiter[ip] = http.generalRateLimiter[ip] + 1)
       => (http'.last.status = 429 /\ ~http'.last.service)]_vars
====
